---------------------------- MODULE Spec2Model ----------------------------
(***************************************************************************)
(* Ashurbanipal: the vector store (threaded VectorStore and cooperative    *)
(* AsyncVectorStore), its snapshot persistence and its similarity search.  *)
(*                                                                         *)
(* Persisted state: the chunks table, the files table, the snapshot file   *)
(* at vector_path and the temp file next to it.  Volatile state: the       *)
(* in-memory embedding map, the locks, and every caller's position.        *)
(***************************************************************************)
EXTENDS Integers, Sequences, FiniteSets, TLC

(***************************************************************************)
(* Input domains.                                                          *)
(***************************************************************************)
\* Source files that are ingested.
Files == {"a", "b"}
\* Chunk contents.
Contents == {"x", "y"}
\* An ingestion yields at most MaxChunks chunks, numbered from 0.
MaxChunks == 2
\* The files table's chunk_count is followed up to MaxCount.
MaxCount == 3
\* search limits range over -1 .. MaxLimit.
MaxLimit == 2

\* AsyncVectorStore(max_connections=...): the semaphore's permits.
max_connections == 2

\* MemoryCache.max_size of the cache of SpecCache, scaled down
max_size == 2

\* MemoryCache.max_size of the module's cache behind the decorator, scaled down
memo_size == 1

\* sqlite3.connect is followed up to MaxOpened connections of one DatabasePool.
MaxOpened == 4

\* time.time() is followed from 0 up to MaxTime.
MaxTime == 3

\* The callers: threads of the synchronous store, tasks of the asynchronous one.
Callers == {"c1", "c2", "c3"}

(***************************************************************************)
(* Chunks (chunker.py).  chunk_id is "{source_file}_{chunk_num:04d}": the  *)
(* pair <<source_file, chunk_num>>; start_pos grows with chunk_num.        *)
(***************************************************************************)
ChunkId(f, k) == <<f, k>>

TextChunk(f, k, c) ==
    [chunk_id |-> ChunkId(f, k), source_file |-> f, content |-> c, start_pos |-> k]

\* The embedding provider: embed(text) -> vector, a fixed function of the text.
Embed(c) == IF c = "x" THEN <<1, 0>> ELSE <<1, 1>>

RECURSIVE SeqsOver(_, _)
\* All sequences of length n over the set S.
SeqsOver(S, n) ==
    IF n = 0 THEN {<<>>}
    ELSE {Append(s, x) : s \in SeqsOver(S, n - 1), x \in S}

\* The chunk lists one ingestion of file f can produce: chunk numbers 0..n-1.
Ingestions(f) ==
    UNION {{[k \in 1..n |-> TextChunk(f, k - 1, cs[k])] : cs \in SeqsOver(Contents, n)} :
              n \in 0..MaxChunks}

EmbedAll(cs) == [k \in 1..Len(cs) |-> Embed(cs[k].content)]

(***************************************************************************)
(* The in-memory embedding map: a Python dict, which keeps insertion       *)
(* order.  A sequence of [id, emb] entries with distinct ids.              *)
(***************************************************************************)
Keys(v) == {v[k].id : k \in 1..Len(v)}

IndexOf(v, id) == CHOOSE k \in 1..Len(v) : v[k].id = id

\* self.vectors[id] = e
DictSet(v, id, e) ==
    IF id \in Keys(v)
    THEN [v EXCEPT ![IndexOf(v, id)] = [id |-> id, emb |-> e]]
    ELSE Append(v, [id |-> id, emb |-> e])

RECURSIVE SetVectors(_, _, _)
\* for chunk, embedding in zip(chunks, embeddings): self.vectors[chunk.chunk_id] = embedding
SetVectors(v, cs, es) ==
    IF cs = <<>> \/ es = <<>> THEN v
    ELSE SetVectors(DictSet(v, Head(cs).chunk_id, Head(es)), Tail(cs), Tail(es))

(***************************************************************************)
(* The relational tables.  chunks: chunk_id -> row; files: filepath ->     *)
(* chunk_count.  Both are functions on the set of keys present.            *)
(***************************************************************************)
EmptyTable == [k \in {} |-> 0]

Row(c) == [source_file |-> c.source_file, content |-> c.content, start_pos |-> c.start_pos]

\* INSERT OR IGNORE INTO chunks: an existing row is kept
InsertOrIgnore(tbl, c) ==
    [id \in DOMAIN tbl \cup {c.chunk_id} |-> IF id \in DOMAIN tbl THEN tbl[id] ELSE Row(c)]

\* for reference: the rows a batch finds under its chunk ids, <<>> for none
ReplacedRows(tbl, cs) ==
    [k \in 1..Len(cs) |-> IF cs[k].chunk_id \in DOMAIN tbl
                           THEN <<tbl[cs[k].chunk_id]>> ELSE <<>>]

\* INSERT OR REPLACE INTO chunks ... for one chunk
UpsertChunk(tbl, c) ==
    [id \in DOMAIN tbl \cup {c.chunk_id} |-> IF id = c.chunk_id THEN Row(c) ELSE tbl[id]]

RECURSIVE UpsertChunks(_, _)
\* executemany over the batch, in order
UpsertChunks(tbl, cs) ==
    IF cs = <<>> THEN tbl ELSE UpsertChunks(UpsertChunk(tbl, Head(cs)), Tail(cs))

\* INSERT OR REPLACE INTO files ... COALESCE(old chunk_count, 0) + 1
CountChunk(ftbl, c) ==
    [f \in DOMAIN ftbl \cup {c.source_file} |->
        IF f = c.source_file
        THEN (IF f \in DOMAIN ftbl THEN ftbl[f] ELSE 0) + 1
        ELSE ftbl[f]]

RECURSIVE CountChunks(_, _)
\* for chunk in chunks: one files upsert per chunk
CountChunks(ftbl, cs) ==
    IF cs = <<>> THEN ftbl ELSE CountChunks(CountChunk(ftbl, Head(cs)), Tail(cs))

(***************************************************************************)
(* The snapshot file: pickle.dump writes the entries and then the STOP     *)
(* opcode; a file cut short has no STOP and pickle.load raises on it.      *)
(***************************************************************************)
Stop == [id |-> <<"STOP", 0>>, emb |-> <<>>]

NoFile == [exists |-> FALSE, data |-> <<>>]

\* open(path, 'wb'): the file exists and is empty
OpenedFile == [exists |-> TRUE, data |-> <<>>]

\* A completely written pickle of the map v.
Pickle(v) == [exists |-> TRUE, data |-> Append(v, Stop)]

\* pickle.load succeeds only on a complete pickle
UnpickleOK(file) ==
    /\ file.exists
    /\ Len(file.data) >= 1
    /\ file.data[Len(file.data)] = Stop

\* _load_vectors: the map of the snapshot; {} when there is no file or load raises
LoadVectors(file) ==
    IF UnpickleOK(file) THEN SubSeq(file.data, 1, Len(file.data) - 1) ELSE <<>>

(***************************************************************************)
(* Similarity scores.  A score num / sqrt(den) is kept as [num, den] with  *)
(* den > 0, so that comparisons are exact.                                 *)
(***************************************************************************)
Score(n, d) == [num |-> n, den |-> d]

Zero == Score(0, 1)

\* a >= b
ScoreGE(a, b) ==
    IF a.num >= 0
    THEN (IF b.num >= 0
          THEN a.num * a.num * b.den >= b.num * b.num * a.den
          ELSE TRUE)
    ELSE (IF b.num >= 0
          THEN FALSE
          ELSE a.num * a.num * b.den <= b.num * b.num * a.den)

RECURSIVE Dot(_, _)
\* np.dot of two vectors of the same length
Dot(a, b) ==
    IF a = <<>> THEN 0 ELSE Head(a) * Head(b) + Dot(Tail(a), Tail(b))

\* VectorStore._cosine_similarity: 0.0 for a zero norm, and 0.0 when np.dot
\* raises on vectors of different length (the exception is caught).
cosine_similarity(vec1, vec2) ==
    IF Len(vec1) # Len(vec2) THEN Zero
    ELSE IF Dot(vec1, vec1) = 0 \/ Dot(vec2, vec2) = 0 THEN Zero
    ELSE Score(Dot(vec1, vec2), Dot(vec1, vec1) * Dot(vec2, vec2))

\* list.sort(key=score, reverse=True) is stable: x goes after every entry
\* whose score is >= its own.
RECURSIVE InsertDesc(_, _)
InsertDesc(s, x) ==
    IF s = <<>> THEN <<x>>
    ELSE IF ScoreGE(Head(s).score, x.score)
         THEN <<Head(s)>> \o InsertDesc(Tail(s), x)
         ELSE <<x>> \o s

RECURSIVE SortDesc(_)
SortDesc(s) ==
    IF s = <<>> THEN <<>>
    ELSE InsertDesc(SortDesc(SubSeq(s, 1, Len(s) - 1)), s[Len(s)])

\* no slicing: every entry is kept
Unsliced(s, limit) == s

\* similarities[:limit], Python slicing (a negative limit counts from the end)
Slice(s, limit) ==
    LET stop == IF limit >= 0
                THEN (IF limit < Len(s) THEN limit ELSE Len(s))
                ELSE (IF Len(s) + limit > 0 THEN Len(s) + limit ELSE 0)
    IN  SubSeq(s, 1, stop)

\* if similarity >= similarity_threshold: similarities.append((chunk_id, similarity))
Collect(acc, q, e, thr) ==
    LET s == cosine_similarity(q, e.emb)
    IN  IF ScoreGE(s, thr) THEN Append(acc, [id |-> e.id, score |-> s]) ELSE acc

(***************************************************************************)
(* State.                                                                  *)
(***************************************************************************)
VARIABLES
    store,        \* the class in use: "sync" (VectorStore) or "async" (AsyncVectorStore)
    chunks,       \* the chunks table: chunk_id -> row
    files,        \* the files table: filepath -> chunk_count
    vectors,      \* self.vectors, the in-memory embedding map
    fs,           \* the file system: path -> file (snapshot file and temp file)
    vector_lock,  \* VectorStore._vector_lock: "free" or the thread holding it
    alock,        \* AsyncVectorStore._vector_lock: an asyncio.Lock
    pool_lock,    \* AsyncVectorStore._pool_lock: an asyncio.Lock
    permits,      \* AsyncVectorStore._available_connections: the semaphore's value
    pool,         \* AsyncVectorStore._connection_pool: the idle connections
    initialized,  \* AsyncVectorStore._initialized
    memo,         \* the decorator's cache: key -> cached result
    running,      \* the task the event loop is running, "none" between callbacks
    th,           \* every caller's operation, arguments, position and result
    vectors0,     \* history: the embedding map the snapshot held at start
    db_pool,      \* a DatabasePool: _pool, _in_use, _created_connections
    cache,        \* MemoryCache._cache: key -> entry
    access_times, \* MemoryCache._access_times: key -> time of the last access
    now,          \* time.time()
    doc,          \* the last call of TextChunker.chunk_text: its text and its result
    rag,          \* the last call of RAGPipeline.query: its arguments, calls and result
    stream,       \* a streaming chat response: the generator's position and its events
    last_call,    \* history: the last call of the MemoryCache and what it did
    inst          \* the VectorStore objects that share the database and snapshot paths

dbvars == <<chunks, files>>
syncvars == <<vector_lock>>
asyncvars == <<alock, pool_lock, permits, pool, initialized, memo, running>>
\* what no operation of the two stores writes
fixedvars == <<store, db_pool, cache, access_times, now, doc, rag, stream, last_call,
               inst>>
\* what no operation of DatabasePool or MemoryCache writes
storevars == <<store, chunks, files, vectors, fs, vector_lock, alock, pool_lock, permits,
               pool, initialized, memo, running, vectors0, doc, rag, stream, inst>>
\* the variables of the stores, DatabasePool and MemoryCache
corevars == <<store, chunks, files, vectors, fs, vector_lock, alock, pool_lock, permits,
              pool, initialized, memo, running, th, vectors0, db_pool, cache,
              access_times, now, last_call, inst>>
vars == <<store, chunks, files, vectors, fs, vector_lock, alock, pool_lock, permits,
          pool, initialized, memo, running, th, vectors0, db_pool, cache, access_times,
          now, doc, rag, stream, last_call, inst>>

\* self.vector_path and self.vector_path.with_suffix('.tmp')
VectorPath == "vectors.pkl"

\* a snapshot written in place, without a temporary file
InPlacePath == "vectors.pkl"

TempPath == "vectors.tmp"

\* An aiosqlite connection as aiosqlite.connect returns it: its open
\* transaction has written no row
FreshConn == [pending |-> EmptyTable]

\* A caller that is not inside any operation.
IdleT ==
    [pc |-> "idle", op |-> "none", chunks |-> <<>>, embs |-> <<>>,
     q |-> <<>>, limit |-> 0, thr |-> Zero,
     i |-> 0, n |-> 0, acc |-> <<>>, seen |-> <<>>, raised |-> FALSE,
     init |-> FALSE, before |-> <<>>, saving |-> <<>>,
     hit |-> FALSE, old |-> <<>>, conn |-> FreshConn, save_failed |-> FALSE,
     map_before |-> <<>>, held |-> 0,
     result |-> "none", out |-> <<>>]

\* DatabasePool.__init__: _pool, _in_use, _created_connections; the connections
\* are numbered in the order of sqlite3.connect, opened counts them, closed
\* holds the closed ones and temporary the ones made by the fallback
NewPool ==
    [pool |-> <<>>, in_use |-> {}, created |-> 0,
     opened |-> 0, closed |-> {}, temporary |-> {}]

\* No text has been chunked yet.
NoDoc == [called |-> FALSE, text |-> <<>>, cleaned |-> <<>>, chunks |-> <<>>]

\* No query has been put to the pipeline yet.
NoQuery == [called |-> FALSE]

\* No streaming request has been made yet.
NoStream == [pc |-> "none"]

\* the VectorStore objects of the endpoints, none constructed yet
Instances == {"i1", "i2"}

NoInstance == [open |-> FALSE, vectors |-> <<>>, added |-> {}]

\* No method of the MemoryCache has been called yet.
NoCall == [op |-> "none", key |-> "none", value |-> <<>>, swept |-> {}, evicted |-> {}]

\* DatabasePool.__init__ and MemoryCache.__init__
Constructed ==
    /\ db_pool = NewPool
    /\ cache = EmptyTable
    /\ access_times = EmptyTable
    /\ now = 0
    /\ doc = NoDoc
    /\ rag = NoQuery
    /\ stream = NoStream
    /\ last_call = NoCall
    /\ inst = [i \in Instances |-> NoInstance]

\* An asyncio.Lock: _locked and the queue of waiting tasks.
FreeLock == [locked |-> FALSE, waiters |-> <<>>]

\* The persisted state a clean earlier run that ingested cs leaves behind.
Persisted(cs) ==
    [chunks |-> UpsertChunks(EmptyTable, cs),
     files |-> CountChunks(EmptyTable, cs),
     vector_file |-> IF cs = <<>> THEN NoFile
                     ELSE Pickle(SetVectors(<<>>, cs, EmbedAll(cs)))]

\* The stores a run may start from: nothing ingested yet, or file "a" ingested.
PriorStores == {Persisted(cs) : cs \in Ingestions("a")}

\* The persisted state p as the process finds it at start.
DiskInit(p) ==
    /\ chunks = p.chunks
    /\ files = p.files
    /\ fs = [path \in {VectorPath, TempPath} |->
                IF path = VectorPath THEN p.vector_file ELSE NoFile]
    /\ vectors0 = LoadVectors(p.vector_file)

\* Locks, semaphore, pool and cache as the constructors leave them.
FreshLocks ==
    /\ vector_lock = "free"
    /\ alock = FreeLock
    /\ pool_lock = FreeLock
    /\ permits = max_connections
    /\ pool = <<>>
    /\ running = "none"
    /\ memo = <<>>
    /\ Constructed

\* VectorStore.__init__: _init_database, then _load_vectors
SyncInit(p) ==
    /\ store = "sync"
    /\ DiskInit(p)
    /\ FreshLocks
    /\ initialized = TRUE
    /\ vectors = LoadVectors(p.vector_file)

\* Locks, semaphore and pool of an AsyncVectorStore that has served a call:
\* its connection is back in the pool.
UsedLocks ==
    /\ vector_lock = "free"
    /\ alock = FreeLock
    /\ pool_lock = FreeLock
    /\ permits = max_connections
    /\ pool = <<FreshConn>>
    /\ running = "none"
    /\ Constructed

\* AsyncVectorStore.__init__: nothing is loaded before initialize()
AsyncInit(p) ==
    /\ store = "async"
    /\ DiskInit(p)
    /\ FreshLocks
    /\ initialized = FALSE
    /\ vectors = <<>>

\* The operation of caller t ends with the given result.
Finish(t, kind, val) ==
    th' = [th EXCEPT ![t].pc = "done", ![t].result = kind, ![t].out = val,
                     ![t].i = 0, ![t].n = 0, ![t].acc = <<>>]

(***************************************************************************)
(* VectorStore._save_vectors, entered with pc = "save".                    *)
(***************************************************************************)
\* with self._vector_lock: open(temp_path, 'wb'); pickle.dump starts on the dict
save_vectors_open(t) ==
    /\ store = "sync"
    /\ th[t].pc = "save"
    /\ vector_lock \in {"free", t}
    /\ vector_lock' = t
    /\ fs' = [fs EXCEPT ![TempPath] = OpenedFile]
    /\ th' = [th EXCEPT ![t].pc = "dump", ![t].i = 1, ![t].n = Len(vectors),
                        ![t].before = LoadVectors(fs[VectorPath]),
                        ![t].saving = vectors]
    /\ UNCHANGED <<fixedvars, dbvars, vectors, asyncvars, vectors0>>

\* pickle.dump writes the next entry, or STOP after the last one; it raises
\* RuntimeError if the dict changed size, and the handler unlinks the temp file.
save_vectors_dump(t) ==
    /\ store = "sync"
    /\ th[t].pc = "dump"
    /\ IF Len(vectors) # th[t].n
       THEN /\ fs' = [fs EXCEPT ![TempPath] = NoFile]
            /\ vector_lock' = "free"
            /\ Finish(t, "ok", <<>>)
       ELSE IF th[t].i <= th[t].n
       THEN /\ fs' = [fs EXCEPT ![TempPath].data = Append(@, vectors[th[t].i])]
            /\ th' = [th EXCEPT ![t].i = @ + 1]
            /\ UNCHANGED vector_lock
       ELSE /\ fs' = [fs EXCEPT ![TempPath].data = Append(@, Stop)]
            /\ th' = [th EXCEPT ![t].pc = "rename"]
            /\ UNCHANGED vector_lock
    /\ UNCHANGED <<fixedvars, dbvars, vectors, asyncvars, vectors0>>

\* temp_path.replace(self.vector_path); the lock is released and the caller returns
save_vectors_rename(t) ==
    /\ store = "sync"
    /\ th[t].pc = "rename"
    /\ fs' = [path \in DOMAIN fs |-> IF path = VectorPath THEN fs[TempPath] ELSE NoFile]
    /\ vector_lock' = "free"
    /\ Finish(t, "ok", <<>>)
    /\ UNCHANGED <<fixedvars, dbvars, vectors, asyncvars, vectors0>>

\* a snapshot write whose handler leaves the temporary file behind
save_vectors_failed_kept(t) ==
    /\ store = "sync"
    /\ th[t].pc \in {"dump", "rename"}
    /\ vector_lock' = "free"
    /\ th' = [th EXCEPT ![t].pc = "done", ![t].result = "ok", ![t].save_failed = TRUE,
                        ![t].i = 0, ![t].n = 0]
    /\ UNCHANGED <<fixedvars, dbvars, vectors, fs, asyncvars, vectors0>>

\* the write to the opened temporary file or the replace raises (OSError: disk
\* full, no permission): the handler logs it and unlinks the temporary file;
\* nothing is raised again, the lock is released and the caller goes on
save_vectors_failed(t) ==
    /\ store = "sync"
    /\ th[t].pc \in {"dump", "rename"}
    /\ fs' = [fs EXCEPT ![TempPath] = NoFile]
    /\ vector_lock' = "free"
    /\ th' = [th EXCEPT ![t].pc = "done", ![t].result = "ok", ![t].save_failed = TRUE,
                        ![t].i = 0, ![t].n = 0]
    /\ UNCHANGED <<fixedvars, dbvars, vectors, asyncvars, vectors0>>

(***************************************************************************)
(* VectorStore.add_chunks                                                  *)
(***************************************************************************)
\* the call and its length check
add_chunks(t, cs, es) ==
    /\ store = "sync"
    /\ th[t].pc = "idle"
    /\ th' = [th EXCEPT ![t] =
                IF Len(cs) # Len(es)
                THEN [IdleT EXCEPT !.op = "add_chunks", !.chunks = cs, !.embs = es,
                                   !.pc = "done", !.result = "ValueError"]
                ELSE [IdleT EXCEPT !.op = "add_chunks", !.chunks = cs, !.embs = es,
                                   !.pc = "add_db"]]
    /\ UNCHANGED <<fixedvars, dbvars, vectors, fs, syncvars, asyncvars, vectors0>>

\* the transaction on the pooled connection, visible at conn.commit()
add_chunks_commit(t) ==
    /\ store = "sync"
    /\ th[t].pc = "add_db"
    /\ chunks' = UpsertChunks(chunks, th[t].chunks)
    /\ files' = CountChunks(files, th[t].chunks)
    /\ th' = [th EXCEPT ![t].pc = IF th[t].chunks = <<>> THEN "save" ELSE "add_vec",
                        ![t].i = 1,
                        ![t].old = ReplacedRows(chunks, th[t].chunks)]
    /\ UNCHANGED <<fixedvars, vectors, fs, syncvars, asyncvars, vectors0>>

\* a statement of the transaction or the commit raises sqlite3.Error: the
\* handler of get_connection rolls the transaction back and raises again, the
\* connection goes back to the pool, add_chunks logs and raises
add_chunks_failed(t) ==
    /\ store = "sync"
    /\ th[t].pc = "add_db"
    /\ th' = [th EXCEPT ![t].pc = "done", ![t].result = "sqlite3.Error",
                        ![t].raised = TRUE, ![t].map_before = vectors]
    /\ UNCHANGED <<fixedvars, dbvars, vectors, fs, syncvars, asyncvars, vectors0>>

\* one iteration of: self.vectors[chunk.chunk_id] = embedding (no lock is held)
add_chunks_vector(t) ==
    /\ store = "sync"
    /\ th[t].pc = "add_vec"
    /\ vectors' = DictSet(vectors, th[t].chunks[th[t].i].chunk_id, th[t].embs[th[t].i])
    /\ th' = [th EXCEPT ![t].pc = IF th[t].i = Len(th[t].chunks) THEN "save" ELSE "add_vec",
                        ![t].i = @ + 1]
    /\ UNCHANGED <<fixedvars, dbvars, fs, syncvars, asyncvars, vectors0>>

\* a search that raises on an empty map instead of returning []
search_raising(t, q, limit, thr) ==
    /\ store = "sync"
    /\ th[t].pc = "idle"
    /\ th' = [th EXCEPT ![t] =
                IF vectors = <<>>
                THEN [IdleT EXCEPT !.op = "search", !.q = q, !.limit = limit, !.thr = thr,
                                   !.pc = "done", !.result = "ValueError",
                                   !.raised = TRUE]
                ELSE [IdleT EXCEPT !.op = "search", !.q = q, !.limit = limit, !.thr = thr,
                                   !.pc = "scan", !.i = 1, !.n = Len(vectors)]]
    /\ UNCHANGED <<fixedvars, dbvars, vectors, fs, syncvars, asyncvars, vectors0>>

(***************************************************************************)
(* VectorStore.search                                                      *)
(***************************************************************************)
\* the call: [] for an empty map, else the iterator over self.vectors.items()
search(t, q, limit, thr) ==
    /\ store = "sync"
    /\ th[t].pc = "idle"
    /\ th' = [th EXCEPT ![t] =
                IF vectors = <<>>
                THEN [IdleT EXCEPT !.op = "search", !.q = q, !.limit = limit, !.thr = thr,
                                   !.pc = "done", !.result = "ok"]
                ELSE [IdleT EXCEPT !.op = "search", !.q = q, !.limit = limit, !.thr = thr,
                                   !.pc = "scan", !.i = 1, !.n = Len(vectors)]]
    /\ UNCHANGED <<fixedvars, dbvars, vectors, fs, syncvars, asyncvars, vectors0>>

\* one step of the scan (no lock is held): RuntimeError if the dict changed size,
\* which the handler turns into []; else the next entry; at the end sort and slice.
search_scan(t) ==
    /\ store = "sync"
    /\ th[t].pc = "scan"
    /\ IF Len(vectors) # th[t].n
       THEN th' = [th EXCEPT ![t].pc = "done", ![t].result = "ok", ![t].out = <<>>,
                             ![t].raised = TRUE, ![t].i = 0, ![t].n = 0, ![t].acc = <<>>]
       ELSE IF th[t].i <= th[t].n
       THEN th' = [th EXCEPT ![t].acc = Collect(@, th[t].q, vectors[th[t].i], th[t].thr),
                             ![t].seen = Append(@, vectors[th[t].i]),
                             ![t].i = @ + 1]
       ELSE Finish(t, "ok", Slice(SortDesc(th[t].acc), th[t].limit))
    /\ UNCHANGED <<fixedvars, dbvars, vectors, fs, syncvars, asyncvars, vectors0>>

(***************************************************************************)
(* VectorStore.clear                                                       *)
(***************************************************************************)
\* DELETE FROM chunks; DELETE FROM files; commit
clear(t) ==
    /\ store = "sync"
    /\ th[t].pc = "idle"
    /\ chunks' = EmptyTable
    /\ files' = EmptyTable
    /\ th' = [th EXCEPT ![t] = [IdleT EXCEPT !.op = "clear", !.pc = "clear_vec"]]
    /\ UNCHANGED <<fixedvars, vectors, fs, syncvars, asyncvars, vectors0>>

\* a clear that leaves the map as it is
clear_vectors_kept(t) ==
    /\ store = "sync"
    /\ th[t].pc = "clear_vec"
    /\ th' = [th EXCEPT ![t].pc = "save"]
    /\ UNCHANGED <<fixedvars, dbvars, vectors, fs, syncvars, asyncvars, vectors0>>

\* self.vectors.clear() (no lock is held), then _save_vectors
clear_vectors(t) ==
    /\ store = "sync"
    /\ th[t].pc = "clear_vec"
    /\ vectors' = <<>>
    /\ th' = [th EXCEPT ![t].pc = "save"]
    /\ UNCHANGED <<fixedvars, dbvars, fs, syncvars, asyncvars, vectors0>>

(***************************************************************************)
(* asyncio.Lock.  acquire takes a free lock with no live waiter at once and *)
(* else queues; release wakes the first waiter, which stays queued until   *)
(* it runs, so a later acquire queues behind it.                           *)
(***************************************************************************)
CanTake(l) == ~l.locked /\ l.waiters = <<>>

Take(l) == [l EXCEPT !.locked = TRUE]

Enqueue(l, t) == [l EXCEPT !.waiters = Append(@, t)]

\* t was woken by release and is the next to run with the lock
Woken(l, t) == ~l.locked /\ l.waiters # <<>> /\ Head(l.waiters) = t

Resume(l) == [locked |-> TRUE, waiters |-> Tail(l.waiters)]

Release(l) == [l EXCEPT !.locked = FALSE]

\* The event loop runs one task at a time: a task runs from one suspension to
\* the next; "none" means the loop is free to resume any ready task.
Runs(t) == store = "async" /\ running \in {"none", t}

(***************************************************************************)
(* AsyncVectorStore._get_connection and _return_connection                 *)
(***************************************************************************)
\* where the caller goes on once it holds a connection: its first await on it
AfterConn(t) ==
    IF th[t].init THEN "init_ddl"
    ELSE IF th[t].op = "add_chunks" THEN "add_exec"
    ELSE IF th[t].op = "get_chunk_count" THEN "count"
    ELSE "select"

\* with the pool lock held: pop an idle connection, or await aiosqlite.connect
\* with the lock still held
PoolTaken(t, lk) ==
    IF pool # <<>>
    THEN /\ pool' = SubSeq(pool, 1, Len(pool) - 1)
         /\ pool_lock' = Release(lk)
         /\ th' = [th EXCEPT ![t].pc = AfterConn(t), ![t].conn = pool[Len(pool)]]
    ELSE /\ pool' = pool
         /\ pool_lock' = lk
         /\ th' = [th EXCEPT ![t].pc = "conn_open"]

\* await self._available_connections.acquire(); async with self._pool_lock
get_connection(t) ==
    /\ Runs(t)
    /\ th[t].pc = "conn"
    /\ IF permits = 0
       THEN /\ th' = [th EXCEPT ![t].pc = "sem_wait"]
            /\ UNCHANGED <<permits, pool, pool_lock>>
       ELSE /\ permits' = permits - 1
            /\ IF CanTake(pool_lock)
               THEN PoolTaken(t, Take(pool_lock))
               ELSE /\ pool_lock' = Enqueue(pool_lock, t)
                    /\ th' = [th EXCEPT ![t].pc = "pool_wait"]
                    /\ pool' = pool
    /\ running' = "none"
    /\ UNCHANGED <<fixedvars, dbvars, vectors, fs, vector_lock, alock, initialized, memo,
                   vectors0>>

\* a permit was released: the waiter tries again
get_connection_permit(t) ==
    /\ Runs(t)
    /\ th[t].pc = "sem_wait"
    /\ permits > 0
    /\ th' = [th EXCEPT ![t].pc = "conn"]
    /\ running' = t
    /\ UNCHANGED <<fixedvars, dbvars, vectors, fs, vector_lock, alock, pool_lock, permits,
                   pool, initialized, memo, vectors0>>

\* the pool lock was handed to the waiter
get_connection_locked(t) ==
    /\ Runs(t)
    /\ th[t].pc = "pool_wait"
    /\ Woken(pool_lock, t)
    /\ PoolTaken(t, Resume(pool_lock))
    /\ running' = "none"
    /\ UNCHANGED <<fixedvars, dbvars, vectors, fs, vector_lock, alock, permits, initialized,
                   memo, vectors0>>

\* aiosqlite.connect and the PRAGMAs are done: the pool lock is released
get_connection_opened(t) ==
    /\ Runs(t)
    /\ th[t].pc = "conn_open"
    /\ pool_lock' = Release(pool_lock)
    /\ th' = [th EXCEPT ![t].pc = AfterConn(t), ![t].conn = FreshConn]
    /\ running' = "none"
    /\ UNCHANGED <<fixedvars, dbvars, vectors, fs, vector_lock, alock, permits, pool,
                   initialized, memo, vectors0>>

\* aiosqlite.connect (or a PRAGMA) raises: async with releases the pool lock
\* and the error leaves _get_connection, whose caller awaits it outside any
\* try: the call fails, and the permit acquired before is not released
get_connection_failed(t) ==
    /\ Runs(t)
    /\ th[t].pc = "conn_open"
    /\ pool_lock' = Release(pool_lock)
    /\ th' = [th EXCEPT ![t].pc = "done", ![t].result = "sqlite3.Error",
                        ![t].raised = TRUE]
    /\ running' = "none"
    /\ UNCHANGED <<fixedvars, dbvars, vectors, fs, vector_lock, alock, permits, pool,
                   initialized, memo, vectors0>>

(***************************************************************************)
(* MemoryCache behind the cache decorator: the entries in the order of     *)
(* their last access, the least recently used first.                       *)
(***************************************************************************)
CacheHas(m, key) == \E k \in 1..Len(m) : m[k].key = key

CacheValue(m, key) == m[CHOOSE k \in 1..Len(m) : m[k].key = key].value

CacheWithout(m, key) == SelectSeq(m, LAMBDA e : e.key # key)

\* get: the access time of the entry is renewed
CacheGet(m, key) ==
    Append(CacheWithout(m, key), [key |-> key, value |-> CacheValue(m, key)])

\* _evict_lru: a full cache loses its least recently used entry
EvictLru(m) == IF Len(m) >= memo_size THEN Tail(m) ELSE m

\* set: _evict_lru, then the entry is stored with a new access time
CacheSet(m, key, val) ==
    Append(CacheWithout(EvictLru(m), key), [key |-> key, value |-> val])

\* the cache key of the decorator: function name and arguments
CacheKey(t) == <<th[t].op, th[t].q, th[t].limit, th[t].thr>>

\* with the connection given back: _init_database goes on to _load_vectors;
\* add_chunks returns or raises what its body raised; search_similar and
\* get_chunk_count return to the decorator, which caches the result
Returned(t) ==
    IF th[t].init
    THEN /\ th' = [th EXCEPT ![t].pc = "load"]
         /\ running' = t
         /\ memo' = memo
    ELSE /\ th' = [th EXCEPT ![t].pc = "done",
                             ![t].result = IF th[t].raised THEN "sqlite3.Error" ELSE "ok",
                             ![t].i = 0, ![t].n = 0, ![t].acc = <<>>]
         /\ running' = "none"
         /\ memo' = IF th[t].op \in {"search_similar", "get_chunk_count"} /\ ~th[t].raised
                    THEN CacheSet(memo, CacheKey(t), th[t].out)
                    ELSE memo

\* len(self._connection_pool) < self.max_connections: append, else close
Pooled(t) == IF Len(pool) < max_connections THEN Append(pool, th[t].conn) ELSE pool

\* _return_connection: async with self._pool_lock, then the permit is released
return_connection(t) ==
    /\ Runs(t)
    /\ th[t].pc = "ret_conn"
    /\ IF CanTake(pool_lock)
       THEN /\ pool' = Pooled(t)
            /\ permits' = permits + 1
            /\ pool_lock' = pool_lock
            /\ Returned(t)
       ELSE /\ pool_lock' = Enqueue(pool_lock, t)
            /\ th' = [th EXCEPT ![t].pc = "ret_wait"]
            /\ running' = "none"
            /\ UNCHANGED <<pool, permits, memo>>
    /\ UNCHANGED <<fixedvars, dbvars, vectors, fs, vector_lock, alock, initialized, vectors0>>

\* the pool lock was handed to the waiter in _return_connection
return_connection_locked(t) ==
    /\ Runs(t)
    /\ th[t].pc = "ret_wait"
    /\ Woken(pool_lock, t)
    /\ pool' = Pooled(t)
    /\ permits' = permits + 1
    /\ pool_lock' = Release(Resume(pool_lock))
    /\ Returned(t)
    /\ UNCHANGED <<fixedvars, dbvars, vectors, fs, vector_lock, alock, initialized, vectors0>>

(***************************************************************************)
(* AsyncVectorStore.initialize: _init_database, _load_vectors              *)
(***************************************************************************)
\* if not self._initialized: await self.initialize()
initialize(t) ==
    /\ Runs(t)
    /\ th[t].pc = "start"
    /\ th' = [th EXCEPT ![t].pc = IF initialized THEN "body" ELSE "conn",
                        ![t].init = ~initialized]
    /\ running' = t
    /\ UNCHANGED <<fixedvars, dbvars, vectors, fs, vector_lock, alock, pool_lock, permits,
                   pool, initialized, memo, vectors0>>

\* _init_database: the CREATE TABLE IF NOT EXISTS statements are committed
init_database(t) ==
    /\ Runs(t)
    /\ th[t].pc = "init_ddl"
    /\ th' = [th EXCEPT ![t].pc = "ret_conn"]
    /\ running' = t
    /\ UNCHANGED <<fixedvars, dbvars, vectors, fs, vector_lock, alock, pool_lock, permits,
                   pool, initialized, memo, vectors0>>

\* with self._vector_lock held in _load_vectors: read the snapshot in the
\* executor if the file exists, else start with {}; then initialize() sets
\* self._initialized
LoadLocked(t, lk) ==
    IF fs[VectorPath].exists
    THEN /\ alock' = lk
         /\ th' = [th EXCEPT ![t].pc = "load_io"]
         /\ running' = "none"
         /\ UNCHANGED <<vectors, initialized>>
    ELSE /\ alock' = Release(lk)
         /\ vectors' = <<>>
         /\ initialized' = TRUE
         /\ th' = [th EXCEPT ![t].pc = "body", ![t].init = FALSE]
         /\ running' = t

load_vectors(t) ==
    /\ Runs(t)
    /\ th[t].pc = "load"
    /\ IF CanTake(alock)
       THEN LoadLocked(t, Take(alock))
       ELSE /\ alock' = Enqueue(alock, t)
            /\ th' = [th EXCEPT ![t].pc = "load_wait"]
            /\ running' = "none"
            /\ UNCHANGED <<vectors, initialized>>
    /\ UNCHANGED <<fixedvars, dbvars, fs, vector_lock, pool_lock, permits, pool, memo,
                   vectors0>>

load_vectors_locked(t) ==
    /\ Runs(t)
    /\ th[t].pc = "load_wait"
    /\ Woken(alock, t)
    /\ LoadLocked(t, Resume(alock))
    /\ UNCHANGED <<fixedvars, dbvars, fs, vector_lock, pool_lock, permits, pool, memo,
                   vectors0>>

\* the executor's pickle.load returned (or raised: {}); self.vectors is replaced
load_vectors_done(t) ==
    /\ Runs(t)
    /\ th[t].pc = "load_io"
    /\ vectors' = LoadVectors(fs[VectorPath])
    /\ alock' = Release(alock)
    /\ initialized' = TRUE
    /\ th' = [th EXCEPT ![t].pc = "body", ![t].init = FALSE]
    /\ running' = t
    /\ UNCHANGED <<fixedvars, dbvars, fs, vector_lock, pool_lock, permits, pool, memo,
                   vectors0>>

(***************************************************************************)
(* AsyncVectorStore._save_vectors                                          *)
(***************************************************************************)
\* with self._vector_lock held: the executor opens the temporary file
SaveLocked(t, lk) ==
    /\ alock' = lk
    /\ fs' = [fs EXCEPT ![TempPath] = OpenedFile]
    /\ th' = [th EXCEPT ![t].pc = "adump", ![t].i = 1, ![t].n = Len(vectors),
                        ![t].before = LoadVectors(fs[VectorPath]),
                        ![t].saving = vectors]
    /\ running' = "none"

async_save_vectors(t) ==
    /\ Runs(t)
    /\ th[t].pc = "asave"
    /\ IF CanTake(alock)
       THEN SaveLocked(t, Take(alock))
       ELSE /\ alock' = Enqueue(alock, t)
            /\ th' = [th EXCEPT ![t].pc = "asave_wait"]
            /\ running' = "none"
            /\ fs' = fs
    /\ UNCHANGED <<fixedvars, dbvars, vectors, vector_lock, pool_lock, permits, pool,
                   initialized, memo, vectors0>>

async_save_vectors_locked(t) ==
    /\ Runs(t)
    /\ th[t].pc = "asave_wait"
    /\ Woken(alock, t)
    /\ SaveLocked(t, Resume(alock))
    /\ UNCHANGED <<fixedvars, dbvars, vectors, vector_lock, pool_lock, permits, pool,
                   initialized, memo, vectors0>>

\* pickle.dump in the executor, entry by entry, then the end of the pickle
\* (the map cannot change: every writer of it needs the lock)
async_save_vectors_dump(t) ==
    /\ store = "async"
    /\ th[t].pc = "adump"
    /\ IF th[t].i <= th[t].n
       THEN /\ fs' = [fs EXCEPT ![TempPath].data = Append(@, vectors[th[t].i])]
            /\ th' = [th EXCEPT ![t].i = @ + 1]
       ELSE /\ fs' = [fs EXCEPT ![TempPath].data = Append(@, Stop)]
            /\ th' = [th EXCEPT ![t].pc = "arename"]
    /\ UNCHANGED <<fixedvars, dbvars, vectors, syncvars, asyncvars, vectors0>>

\* temp_path.replace(self.vector_path) in the executor; the lock is released;
\* add_chunks deletes the key "chunk_count" from self._cache, the store's own
\* cache, which never holds an entry (the decorator keeps its results in the
\* module's cache under its own keys: memo is not touched), and goes on to
\* return its connection
async_save_vectors_rename(t) ==
    /\ Runs(t)
    /\ th[t].pc = "arename"
    /\ fs' = [path \in DOMAIN fs |-> IF path = VectorPath THEN fs[TempPath] ELSE NoFile]
    /\ alock' = Release(alock)
    /\ th' = [th EXCEPT ![t].pc = "ret_conn", ![t].i = 0, ![t].n = 0]
    /\ running' = t
    /\ UNCHANGED <<fixedvars, dbvars, vectors, vector_lock, pool_lock, permits, pool,
                   initialized, memo, vectors0>>

\* pickle.dump or the replace raises in the executor: the handler logs it and
\* unlinks the temporary file; nothing is raised again, the lock is released
\* and add_chunks goes on
async_save_vectors_failed(t) ==
    /\ Runs(t)
    /\ th[t].pc \in {"adump", "arename"}
    /\ fs' = [fs EXCEPT ![TempPath] = NoFile]
    /\ alock' = Release(alock)
    /\ th' = [th EXCEPT ![t].pc = "ret_conn", ![t].save_failed = TRUE,
                        ![t].i = 0, ![t].n = 0]
    /\ running' = t
    /\ UNCHANGED <<fixedvars, dbvars, vectors, vector_lock, pool_lock, permits, pool,
                   initialized, memo, vectors0>>

(***************************************************************************)
(* AsyncVectorStore.add_chunks                                             *)
(***************************************************************************)
\* the call: the coroutine starts with the check of self._initialized
async_add_chunks(t, cs, es) ==
    /\ store = "async"
    /\ running = "none"
    /\ th[t].pc = "idle"
    /\ th' = [th EXCEPT ![t] = [IdleT EXCEPT !.op = "add_chunks", !.chunks = cs,
                                             !.embs = es, !.pc = "start"]]
    /\ running' = t
    /\ UNCHANGED <<fixedvars, dbvars, vectors, fs, vector_lock, alock, pool_lock, permits,
                   pool, initialized, memo, vectors0>>

\* after the initialisation: if len(chunks) != len(embeddings): raise ValueError
async_add_chunks_check(t) ==
    /\ Runs(t)
    /\ th[t].pc = "body"
    /\ th[t].op = "add_chunks"
    /\ IF Len(th[t].chunks) # Len(th[t].embs)
       THEN /\ th' = [th EXCEPT ![t].pc = "done", ![t].result = "ValueError"]
            /\ running' = "none"
       ELSE /\ th' = [th EXCEPT ![t].pc = "conn"]
            /\ running' = t
    /\ UNCHANGED <<fixedvars, dbvars, vectors, fs, vector_lock, alock, pool_lock, permits,
                   pool, initialized, memo, vectors0>>

\* the table as a statement on connection c reads it: the committed rows and
\* the rows of c's own open transaction
ViewOf(c) ==
    [id \in DOMAIN chunks \cup DOMAIN c.pending |->
        IF id \in DOMAIN c.pending THEN c.pending[id] ELSE chunks[id]]

\* executemany(INSERT OR REPLACE INTO chunks) and commit, which commits the
\* whole open transaction of the connection; the files table is not written
async_add_chunks_commit(t) ==
    /\ Runs(t)
    /\ th[t].pc = "add_exec"
    /\ chunks' = UpsertChunks(ViewOf(th[t].conn), th[t].chunks)
    /\ th' = [th EXCEPT ![t].pc = "vec", ![t].conn = FreshConn]
    /\ running' = t
    /\ UNCHANGED <<fixedvars, files, vectors, fs, vector_lock, alock, pool_lock, permits,
                   pool, initialized, memo, vectors0>>

\* executemany raises sqlite3.Error at its row k + 1, or the commit raises
\* (k = len(chunks)): the rows written so far stay in the open transaction of
\* the connection; add_chunks logs, raises, and its finally returns the
\* connection, on which nothing was rolled back
async_add_chunks_failed(t) ==
    /\ Runs(t)
    /\ th[t].pc = "add_exec"
    /\ \E k \in 0..Len(th[t].chunks) :
          th' = [th EXCEPT ![t].pc = "ret_conn", ![t].raised = TRUE,
                           ![t].map_before = vectors,
                           ![t].conn.pending =
                               UpsertChunks(@, SubSeq(th[t].chunks, 1, k))]
    /\ running' = t
    /\ UNCHANGED <<fixedvars, dbvars, vectors, fs, vector_lock, alock, pool_lock, permits,
                   pool, initialized, memo, vectors0>>

\* async with self._vector_lock: self.vectors[chunk.chunk_id] = embedding, for
\* the whole batch without suspension
async_add_chunks_vectors(t) ==
    /\ Runs(t)
    /\ th[t].pc = "vec"
    /\ IF CanTake(alock)
       THEN /\ vectors' = SetVectors(vectors, th[t].chunks, th[t].embs)
            /\ alock' = alock
            /\ th' = [th EXCEPT ![t].pc = "asave"]
            /\ running' = t
       ELSE /\ alock' = Enqueue(alock, t)
            /\ th' = [th EXCEPT ![t].pc = "vec_wait"]
            /\ running' = "none"
            /\ vectors' = vectors
    /\ UNCHANGED <<fixedvars, dbvars, fs, vector_lock, pool_lock, permits, pool,
                   initialized, memo, vectors0>>

async_add_chunks_vectors_locked(t) ==
    /\ Runs(t)
    /\ th[t].pc = "vec_wait"
    /\ Woken(alock, t)
    /\ vectors' = SetVectors(vectors, th[t].chunks, th[t].embs)
    /\ alock' = Release(Resume(alock))
    /\ th' = [th EXCEPT ![t].pc = "asave"]
    /\ running' = t
    /\ UNCHANGED <<fixedvars, dbvars, fs, vector_lock, pool_lock, permits, pool,
                   initialized, memo, vectors0>>

(***************************************************************************)
(* AsyncVectorStore.search_similar behind the cache decorator              *)
(***************************************************************************)
\* np.dot raises on vectors of different length
Raises(q, v) == \E k \in 1..Len(v) : Len(v[k].emb) # Len(q)

\* similarity >= similarity_threshold, where a zero norm gives nan, which is
\* not >= anything
RECURSIVE Similarities(_, _, _)
Similarities(q, v, thr) ==
    IF v = <<>> THEN <<>>
    ELSE LET e    == v[Len(v)]
             rest == Similarities(q, SubSeq(v, 1, Len(v) - 1), thr)
             s    == Score(Dot(q, e.emb), Dot(q, q) * Dot(e.emb, e.emb))
         IN  IF Dot(q, q) # 0 /\ Dot(e.emb, e.emb) # 0 /\ ScoreGE(s, thr)
             THEN Append(rest, [id |-> e.id, score |-> s])
             ELSE rest

\* the order of the primary key chunk_id, f"{source_file}_{chunk_num:04d}"
IdBefore(a, b) ==
    \/ a[1] = "a" /\ b[1] = "b"
    \/ a[1] = b[1] /\ a[2] < b[2]

RECURSIVE SelectRows(_, _, _)
\* SELECT ... FROM chunks WHERE chunk_id IN (ids): the rows that exist, in
\* key order, each with the similarity of its id
SelectRows(tbl, top, ids) ==
    IF ids = {} THEN <<>>
    ELSE LET id == CHOOSE x \in ids : \A y \in ids \ {x} : IdBefore(x, y)
             e  == top[CHOOSE k \in 1..Len(top) : top[k].id = id]
         IN  <<[id |-> id, score |-> e.score, content |-> tbl[id].content]>>
               \o SelectRows(tbl, top, ids \ {id})

\* similarities.sort(...); top_similarities = similarities[:limit]
TopSimilarities(v, q, limit, thr) == Slice(SortDesc(Similarities(q, v, thr)), limit)

\* the rows of the SELECT with their scores, results.sort(...)
JoinedResults(tbl, top) ==
    SortDesc(SelectRows(tbl, top, {top[k].id : k \in 1..Len(top)} \cap DOMAIN tbl))

\* the wrapper: a cached result that is not None is returned without a call
search_similar(t, q, limit, thr) ==
    /\ store = "async"
    /\ running = "none"
    /\ th[t].pc = "idle"
    /\ LET c   == [IdleT EXCEPT !.op = "search_similar", !.q = q, !.limit = limit,
                                !.thr = thr]
           key == <<"search_similar", q, limit, thr>>
       IN  IF CacheHas(memo, key)
           THEN /\ th' = [th EXCEPT ![t] = [c EXCEPT !.pc = "done", !.result = "ok",
                                                     !.out = CacheValue(memo, key),
                                                     !.hit = TRUE]]
                /\ memo' = CacheGet(memo, key)
                /\ running' = "none"
           ELSE /\ th' = [th EXCEPT ![t] = [c EXCEPT !.pc = "start"]]
                /\ memo' = memo
                /\ running' = t
    /\ UNCHANGED <<fixedvars, dbvars, vectors, fs, vector_lock, alock, pool_lock, permits,
                   pool, initialized, vectors0>>

\* with self._vector_lock held: the scan, then sort and slice; [] is returned
\* (and cached) at once, an exception is re-raised
Scanned(t, lk) ==
    /\ alock' = Release(lk)
    /\ IF Raises(th[t].q, vectors)
       THEN /\ th' = [th EXCEPT ![t].pc = "done", ![t].result = "ValueError"]
            /\ running' = "none"
            /\ memo' = memo
       ELSE LET top == TopSimilarities(vectors, th[t].q, th[t].limit, th[t].thr)
            IN  IF top = <<>>
                THEN /\ th' = [th EXCEPT ![t].pc = "done", ![t].result = "ok"]
                     /\ running' = "none"
                     /\ memo' = CacheSet(memo, CacheKey(t), <<>>)
                ELSE /\ th' = [th EXCEPT ![t].pc = "conn", ![t].acc = top,
                                         ![t].seen = vectors]
                     /\ running' = t
                     /\ memo' = memo

search_similar_scan(t) ==
    /\ Runs(t)
    /\ th[t].pc = "body"
    /\ th[t].op = "search_similar"
    /\ IF CanTake(alock)
       THEN Scanned(t, alock)
       ELSE /\ alock' = Enqueue(alock, t)
            /\ th' = [th EXCEPT ![t].pc = "scan_wait"]
            /\ running' = "none"
            /\ memo' = memo
    /\ UNCHANGED <<fixedvars, dbvars, vectors, fs, vector_lock, pool_lock, permits, pool,
                   initialized, vectors0>>

search_similar_scan_locked(t) ==
    /\ Runs(t)
    /\ th[t].pc = "scan_wait"
    /\ Woken(alock, t)
    /\ Scanned(t, Resume(alock))
    /\ UNCHANGED <<fixedvars, dbvars, vectors, fs, vector_lock, pool_lock, permits, pool,
                   initialized, vectors0>>

\* the SELECT returned: rows joined with their scores, sorted by score
search_similar_select(t) ==
    /\ Runs(t)
    /\ th[t].pc = "select"
    /\ th' = [th EXCEPT ![t].pc = "ret_conn",
                        ![t].out = JoinedResults(ViewOf(th[t].conn), th[t].acc)]
    /\ running' = t
    /\ UNCHANGED <<fixedvars, dbvars, vectors, fs, vector_lock, alock, pool_lock, permits,
                   pool, initialized, memo, vectors0>>

(***************************************************************************)
(* AsyncVectorStore.get_chunk_count behind the cache decorator             *)
(***************************************************************************)
\* the wrapper: a cached count (0 too: it is not None) is returned without a
\* call
get_chunk_count(t) ==
    /\ store = "async"
    /\ running = "none"
    /\ th[t].pc = "idle"
    /\ LET c   == [IdleT EXCEPT !.op = "get_chunk_count"]
           key == <<"get_chunk_count", c.q, c.limit, c.thr>>
       IN  IF CacheHas(memo, key)
           THEN /\ th' = [th EXCEPT ![t] = [c EXCEPT !.pc = "done", !.result = "ok",
                                                     !.out = CacheValue(memo, key),
                                                     !.hit = TRUE]]
                /\ memo' = CacheGet(memo, key)
                /\ running' = "none"
           ELSE /\ th' = [th EXCEPT ![t] = [c EXCEPT !.pc = "start"]]
                /\ memo' = memo
                /\ running' = t
    /\ UNCHANGED <<fixedvars, dbvars, vectors, fs, vector_lock, alock, pool_lock, permits,
                   pool, initialized, vectors0>>

\* after the initialisation: conn = await self._get_connection()
get_chunk_count_body(t) ==
    /\ Runs(t)
    /\ th[t].pc = "body"
    /\ th[t].op = "get_chunk_count"
    /\ th' = [th EXCEPT ![t].pc = "conn"]
    /\ running' = t
    /\ UNCHANGED <<fixedvars, dbvars, vectors, fs, vector_lock, alock, pool_lock, permits,
                   pool, initialized, memo, vectors0>>

\* SELECT COUNT(*) FROM chunks on the connection: return row[0]
get_chunk_count_select(t) ==
    /\ Runs(t)
    /\ th[t].pc = "count"
    /\ th' = [th EXCEPT ![t].pc = "ret_conn",
                        ![t].out = <<Cardinality(DOMAIN ViewOf(th[t].conn))>>]
    /\ running' = t
    /\ UNCHANGED <<fixedvars, dbvars, vectors, fs, vector_lock, alock, pool_lock, permits,
                   pool, initialized, memo, vectors0>>

\* the SELECT raises sqlite3.Error: the finally returns the connection and
\* the error reaches the caller; nothing is cached
get_chunk_count_failed(t) ==
    /\ Runs(t)
    /\ th[t].pc = "count"
    /\ th' = [th EXCEPT ![t].pc = "ret_conn", ![t].raised = TRUE]
    /\ running' = t
    /\ UNCHANGED <<fixedvars, dbvars, vectors, fs, vector_lock, alock, pool_lock, permits,
                   pool, initialized, memo, vectors0>>

(***************************************************************************)
(* VectorStore.get_chunk, get_file_chunks, get_statistics                  *)
(***************************************************************************)
\* SELECT * FROM chunks WHERE chunk_id = ?: the row, or None
GetChunk(id) ==
    IF id \in DOMAIN chunks THEN <<chunks[id]>> ELSE <<>>

RECURSIVE OrderByStartPos(_, _)
\* the rows of the ids, ORDER BY start_pos
OrderByStartPos(tbl, ids) ==
    IF ids = {} THEN <<>>
    ELSE LET id == CHOOSE x \in ids :
                      \A y \in ids \ {x} :
                         \/ tbl[x].start_pos < tbl[y].start_pos
                         \/ tbl[x].start_pos = tbl[y].start_pos /\ IdBefore(x, y)
         IN  <<tbl[id]>> \o OrderByStartPos(tbl, ids \ {id})

\* SELECT * FROM chunks WHERE source_file = ? ORDER BY start_pos
GetFileChunks(f) ==
    OrderByStartPos(chunks, {id \in DOMAIN chunks : chunks[id].source_file = f})

\* SELECT COUNT(*) FROM files, SELECT COUNT(*) FROM chunks, len(self.vectors)
GetStatistics ==
    [total_files |-> Cardinality(DOMAIN files),
     total_chunks |-> Cardinality(DOMAIN chunks),
     vector_count |-> Len(vectors)]

(***************************************************************************)
(* The caller takes the result; the process dies and is started again.     *)
(***************************************************************************)
\* the call of t has returned and t may call again; what the last successful
\* add_chunks put in is kept for reference
Return(t) ==
    /\ th[t].pc = "done"
    /\ running = "none"
    /\ th' = [th EXCEPT ![t] = IdleT]
    /\ UNCHANGED <<fixedvars, dbvars, vectors, fs, syncvars, asyncvars, vectors0>>

\* The process is killed while a snapshot is being written: memory, locks and
\* connections are gone, the database keeps what was committed, the files
\* stay as written so far.  The new process constructs the store:
\* VectorStore.__init__ loads the snapshot, AsyncVectorStore.__init__ leaves
\* that to initialize().
Crash ==
    /\ \E t \in Callers : th[t].pc \in {"dump", "rename", "adump", "arename"}
    /\ th' = [t \in Callers |-> IdleT]
    /\ vector_lock' = "free"
    /\ alock' = FreeLock
    /\ pool_lock' = FreeLock
    /\ permits' = max_connections
    /\ pool' = <<>>
    /\ running' = "none"
    /\ memo' = <<>>
    /\ initialized' = (store = "sync")
    /\ vectors' = IF store = "sync" THEN LoadVectors(fs[VectorPath]) ELSE <<>>
    /\ UNCHANGED <<fixedvars, dbvars, fs, vectors0>>

(***************************************************************************)
(* DatabasePool: get_connection as a context manager around a body, and    *)
(* close_all.  Each with self._lock block is one step.                     *)
(***************************************************************************)
\* _create_connection: sqlite3.connect, self._created_connections += 1
CreateConnection(p) == [p EXCEPT !.created = @ + 1, !.opened = @ + 1]

\* with self._lock: pop an idle connection, else create one below the limit,
\* else leave conn = None
pool_get_connection(t) ==
    /\ store = "sync"
    /\ th[t].pc = "idle"
    /\ LET c == [IdleT EXCEPT !.op = "get_connection"]
       IN  IF db_pool.pool # <<>>
           THEN /\ db_pool' = [db_pool EXCEPT !.pool = SubSeq(@, 1, Len(@) - 1)]
                /\ th' = [th EXCEPT ![t] = [c EXCEPT !.pc = "mark",
                                                     !.held = db_pool.pool[Len(db_pool.pool)]]]
           ELSE IF db_pool.created < max_connections
           THEN /\ db_pool.opened < MaxOpened
                /\ db_pool' = CreateConnection(db_pool)
                /\ th' = [th EXCEPT ![t] = [c EXCEPT !.pc = "mark",
                                                     !.held = db_pool.opened + 1]]
           ELSE /\ db_pool' = db_pool
                /\ th' = [th EXCEPT ![t] = [c EXCEPT !.pc = "fallback"]]
    /\ UNCHANGED <<storevars, cache, access_times, now, last_call>>

\* if conn is None: conn = self._create_connection(), outside the lock
pool_create_temporary(t) ==
    /\ store = "sync"
    /\ th[t].pc = "fallback"
    /\ db_pool.opened < MaxOpened
    /\ db_pool' = [CreateConnection(db_pool) EXCEPT
                      !.temporary = @ \cup {db_pool.opened + 1}]
    /\ th' = [th EXCEPT ![t].pc = "mark", ![t].held = db_pool.opened + 1]
    /\ UNCHANGED <<storevars, cache, access_times, now, last_call>>

\* with self._lock: self._in_use.add(conn); yield conn
pool_mark_in_use(t) ==
    /\ store = "sync"
    /\ th[t].pc = "mark"
    /\ db_pool' = [db_pool EXCEPT !.in_use = @ \cup {th[t].held}]
    /\ th' = [th EXCEPT ![t].pc = "with"]
    /\ UNCHANGED <<storevars, cache, access_times, now, last_call>>

\* the body of the with statement completes, or raises: the handler rolls
\* back and raises again
pool_body(t) ==
    /\ store = "sync"
    /\ th[t].pc = "with"
    /\ \E r \in BOOLEAN : th' = [th EXCEPT ![t].pc = "release", ![t].raised = r]
    /\ UNCHANGED <<storevars, db_pool, cache, access_times, now, last_call>>

\* a release that leaves the connection in the in-use set
ReleasedKept(p, c) ==
    IF Len(p.pool) < max_connections
    THEN [p EXCEPT !.pool = Append(@, c)]
    ELSE [p EXCEPT !.closed = @ \cup {c}, !.created = @ - 1]

\* finally, with self._lock: discard from _in_use; append to _pool if
\* len(self._pool) < self.max_connections, else close and count down
Released(p, c) ==
    IF Len(p.pool) < max_connections
    THEN [p EXCEPT !.in_use = @ \ {c}, !.pool = Append(@, c)]
    ELSE [p EXCEPT !.in_use = @ \ {c}, !.closed = @ \cup {c}, !.created = @ - 1]

\* the end of the with statement: the connection is released and the caller
\* goes on, with the exception of the body if it raised
pool_release(t) ==
    /\ store = "sync"
    /\ th[t].pc = "release"
    /\ db_pool' = Released(db_pool, th[t].held)
    /\ th' = [th EXCEPT ![t].pc = "done",
                        ![t].result = IF th[t].raised THEN "sqlite3.Error" ELSE "ok"]
    /\ UNCHANGED <<storevars, cache, access_times, now, last_call>>

\* a close_all that leaves the in-use connections alone
close_all_idle(t) ==
    /\ store = "sync"
    /\ th[t].pc = "idle"
    /\ db_pool' = [db_pool EXCEPT
                      !.closed = @ \cup {db_pool.pool[k] : k \in 1..Len(db_pool.pool)},
                      !.pool = <<>>, !.created = 0]
    /\ th' = [th EXCEPT ![t] = [IdleT EXCEPT !.op = "close_all", !.pc = "done",
                                             !.result = "ok"]]
    /\ UNCHANGED <<storevars, cache, access_times, now, last_call>>

\* close_all, with self._lock: close every idle and every in-use connection
\* (an error of close is passed over), clear both, _created_connections = 0
close_all(t) ==
    /\ store = "sync"
    /\ th[t].pc = "idle"
    /\ db_pool' = [db_pool EXCEPT
                      !.closed = @ \cup {db_pool.pool[k] : k \in 1..Len(db_pool.pool)}
                                  \cup db_pool.in_use,
                      !.pool = <<>>, !.in_use = {}, !.created = 0]
    /\ th' = [th EXCEPT ![t] = [IdleT EXCEPT !.op = "close_all", !.pc = "done",
                                             !.result = "ok"]]
    /\ UNCHANGED <<storevars, cache, access_times, now, last_call>>

\* get_stats: pool_size, in_use, total_created
get_stats == <<Len(db_pool.pool), Cardinality(db_pool.in_use), db_pool.created>>

(***************************************************************************)
(* MemoryCache with its two tables, _cache (key -> value and expiry) and   *)
(* _access_times (key -> time of the last access).  Every method runs      *)
(* under self._lock: one step each.                                        *)
(***************************************************************************)
\* del f[k] for the keys ks that are present
Without(f, ks) == [k \in DOMAIN f \ ks |-> f[k]]

\* f[key] = v
With(f, key, v) == [k \in DOMAIN f \cup {key} |-> IF k = key THEN v ELSE f[k]]

\* a sweep that removes nothing
cleanup_none(m, time) == m

\* _cleanup_expired at time.time() = time
cleanup_expired(m, time) ==
    LET expired_keys == {k \in DOMAIN m.cache : time > m.cache[k].expires}
    IN  [cache |-> Without(m.cache, expired_keys),
         access_times |-> Without(m.access_times, expired_keys)]

\* an eviction that never makes room
evict_none(m) == {m}

\* an eviction of a key of the greatest access time
evict_mru(m) ==
    IF Cardinality(DOMAIN m.cache) >= max_size
    THEN {[cache |-> Without(m.cache, {mru_key}),
           access_times |-> Without(m.access_times, {mru_key})] :
             mru_key \in {k \in DOMAIN m.access_times :
                             \A j \in DOMAIN m.access_times :
                                 m.access_times[k] >= m.access_times[j]}}
    ELSE {m}

\* _evict_lru: a full cache loses a key of the least access time, from both
\* tables (min takes the first of several such keys: any of them here)
evict_lru(m) ==
    IF Cardinality(DOMAIN m.cache) >= max_size
    THEN {[cache |-> Without(m.cache, {lru_key}),
           access_times |-> Without(m.access_times, {lru_key})] :
             lru_key \in {k \in DOMAIN m.access_times :
                             \A j \in DOMAIN m.access_times :
                                 m.access_times[k] <= m.access_times[j]}}
    ELSE {m}

\* get(key): cleanup; a present entry that has not expired at the second
\* reading of the clock gets a new access time and its value is returned, an
\* expired one is deleted and None (<<>>) is returned
cache_get(key) ==
    \E later \in {now, IF now < MaxTime THEN now + 1 ELSE now} :
        LET m == cleanup_expired([cache |-> cache, access_times |-> access_times], now)
            swept == DOMAIN cache \ DOMAIN m.cache
        IN  /\ now' = later
            /\ IF key \notin DOMAIN m.cache
               THEN /\ cache' = m.cache /\ access_times' = m.access_times
                    /\ last_call' = [op |-> "get", key |-> key, value |-> <<>>,
                                     swept |-> swept, evicted |-> {}]
               ELSE IF later <= m.cache[key].expires
               THEN /\ cache' = m.cache /\ access_times' = With(m.access_times, key, later)
                    /\ last_call' = [op |-> "get", key |-> key,
                                     value |-> <<m.cache[key].value>>,
                                     swept |-> swept, evicted |-> {}]
               ELSE /\ cache' = Without(m.cache, {key})
                    /\ access_times' = Without(m.access_times, {key})
                    /\ last_call' = [op |-> "get", key |-> key, value |-> <<>>,
                                     swept |-> swept \cup {key}, evicted |-> {}]
            /\ UNCHANGED <<storevars, th, db_pool>>

\* set(key, value, ttl): cleanup, _evict_lru, then the entry and its access
\* time are stored
cache_set(key, value, ttl) ==
    /\ LET swept == cleanup_expired([cache |-> cache, access_times |-> access_times], now)
       IN  \E m \in evict_lru(swept) :
             /\ cache' = With(m.cache, key, [value |-> value, expires |-> now + ttl])
             /\ access_times' = With(m.access_times, key, now)
             /\ last_call' = [op |-> "set", key |-> key, value |-> <<>>,
                              swept |-> DOMAIN cache \ DOMAIN swept.cache,
                              evicted |-> DOMAIN swept.cache \ DOMAIN m.cache]
    /\ UNCHANGED <<storevars, th, db_pool, now>>

\* delete(key)
cache_delete(key) ==
    /\ cache' = Without(cache, {key})
    /\ access_times' = IF key \in DOMAIN cache THEN Without(access_times, {key})
                       ELSE access_times
    /\ last_call' = [NoCall EXCEPT !.op = "delete", !.key = key]
    /\ UNCHANGED <<storevars, th, db_pool, now>>

\* clear()
cache_clear ==
    /\ cache' = EmptyTable
    /\ access_times' = EmptyTable
    /\ last_call' = [NoCall EXCEPT !.op = "clear"]
    /\ UNCHANGED <<storevars, th, db_pool, now>>

\* the clock goes on
tick ==
    /\ now < MaxTime
    /\ now' = now + 1
    /\ UNCHANGED <<storevars, th, db_pool, cache, access_times, last_call>>

(***************************************************************************)
(* Inputs of the calls.                                                    *)
(***************************************************************************)
\* The embedding lists add_chunks is called with for the chunks cs: the
\* embedder's, and one of another length.
EmbeddingLists(cs) ==
    {EmbedAll(cs), IF cs = <<>> THEN <<Embed("x")>> ELSE Tail(EmbedAll(cs))}

Queries == {<<1, 0>>, <<0, 1>>, <<0, 0>>, <<-1, 0>>, <<1>>}

\* 0.0, 0.7 and -1.0
Thresholds == {Zero, Score(7, 100), Score(-1, 1)}

Limits == -1..MaxLimit

(***************************************************************************)
(* Spec: threads calling one VectorStore, one operation each.              *)
(***************************************************************************)
SyncThreads == {"c1", "c2"}

Init ==
    /\ \E p \in PriorStores : SyncInit(p)
    /\ th = [t \in Callers |-> IdleT]

Next ==
    \E t \in SyncThreads :
        \/ \E f \in Files : \E cs \in Ingestions(f) : \E es \in EmbeddingLists(cs) :
              add_chunks(t, cs, es)
        \/ add_chunks_commit(t)
        \/ add_chunks_vector(t)
        \/ save_vectors_open(t)
        \/ save_vectors_dump(t)
        \/ save_vectors_rename(t)
        \/ search(t, <<1, 0>>, MaxLimit, Zero)
        \/ search_scan(t)
        \/ clear(t)
        \/ clear_vectors(t)

Spec == Init /\ [][Next]_vars

(***************************************************************************)
(* Readers and writers of the embedding map.                               *)
(***************************************************************************)
BatchIds(cs) == {cs[k].chunk_id : k \in 1..Len(cs)}

\* t is inside the loop that writes its batch into the map: part is written
Writing(t) == th[t].pc = "add_vec" /\ th[t].i > 1

\* t is inside the scan of the map: part is read
Reading(t) == th[t].pc = "scan" /\ th[t].i > 1 /\ th[t].i <= th[t].n

\* C3: at most one operation writes the in-memory embedding map at a time, and
\* no search reads the map while an add_chunks or clear is writing it.
C3_Claim ==
    \A t \in Callers : \A u \in Callers \ {t} :
        /\ ~(Writing(t) /\ Writing(u))
        /\ ~(Reading(t) /\ Writing(u))

\* C4: a search that ran next to an add_chunks of new chunk ids scanned a map
\* holding none or all of that batch's embeddings, never only part of them.
C4_Claim ==
    \A t \in Callers : \A u \in Callers \ {t} :
        ( /\ th[t].op = "search" /\ th[t].pc = "done" /\ ~th[t].raised
          /\ th[u].op = "add_chunks" /\ th[u].result # "ValueError"
          /\ BatchIds(th[u].chunks) \cap Keys(vectors0) = {} )
        => \/ BatchIds(th[u].chunks) \cap Keys(th[t].seen) = {}
           \/ BatchIds(th[u].chunks) \subseteq Keys(th[t].seen)

\* C12: a call of add_chunks or search during which an error was raised ends
\* with that error at the caller, never with a normal result such as [].
C12_Claim ==
    \A t \in Callers :
        (th[t].pc = "done" /\ th[t].op \in {"add_chunks", "search"} /\ th[t].raised)
            => th[t].result # "ok"

(***************************************************************************)
(* SpecSeq: one caller, one call after the other, on either store; the     *)
(* process may die at any step of a call.                                  *)
(***************************************************************************)
\* the chunk_count of no file is driven past MaxCount
CountsFit(cs) ==
    \A k \in 1..Len(cs) :
        (IF cs[k].source_file \in DOMAIN files THEN files[cs[k].source_file] ELSE 0)
            + Len(cs) <= MaxCount

\* The session ingests file "a", again and again; the store it starts from is
\* empty or holds file "b" from an earlier run.
SeqFiles == {"a"}

SeqPriorStores == {Persisted(<<>>), Persisted(<<TextChunk("b", 0, "x")>>)}

InitSeq ==
    /\ \E p \in SeqPriorStores : SyncInit(p) \/ AsyncInit(p)
    /\ th = [t \in Callers |-> IdleT]

SyncCalls(t) ==
    \/ \E f \in SeqFiles : \E cs \in Ingestions(f) : \E es \in EmbeddingLists(cs) :
          CountsFit(cs) /\ add_chunks(t, cs, es)
    \/ clear(t)

SyncSteps(t) ==
    \/ add_chunks_commit(t)
    \/ add_chunks_vector(t)
    \/ save_vectors_open(t)
    \/ save_vectors_dump(t)
    \/ save_vectors_rename(t)
    \/ clear_vectors(t)

AsyncSteps(t) ==
    \/ initialize(t)
    \/ get_connection(t)
    \/ get_connection_opened(t)
    \/ init_database(t)
    \/ return_connection(t)
    \/ load_vectors(t)
    \/ load_vectors_done(t)
    \/ async_add_chunks_check(t)
    \/ async_add_chunks_commit(t)
    \/ async_add_chunks_vectors(t)
    \/ async_save_vectors(t)
    \/ async_save_vectors_dump(t)
    \/ async_save_vectors_rename(t)

NextSeq ==
    \/ SyncCalls("c1")
    \/ SyncSteps("c1")
    \/ \E f \in SeqFiles : \E cs \in Ingestions(f) : \E es \in EmbeddingLists(cs) :
          async_add_chunks("c1", cs, es)
    \/ AsyncSteps("c1")
    \/ Return("c1")
    \/ Crash

SpecSeq == InitSeq /\ [][NextSeq]_vars

(***************************************************************************)
(* Properties of the calls of one caller.                                  *)
(***************************************************************************)
\* the call op of t has returned without an exception
Succeeded(t, op) == th[t].pc = "done" /\ th[t].op = op /\ th[t].result = "ok"

\* C6: after add_chunks returned successfully, get_chunk of every chunk id of
\* the batch returns one record, whose content is that chunk's content; this
\* includes ids that were in the store before, with whatever content.
C6_Theorem ==
    \A t \in Callers :
        (store = "sync" /\ Succeeded(t, "add_chunks")) =>
            \A k \in 1..Len(th[t].chunks) :
                LET c == th[t].chunks[k]
                IN  /\ Len(GetChunk(c.chunk_id)) = 1
                    /\ GetChunk(c.chunk_id)[1].content = c.content

\* add_chunks returned after it replaced a row of other content
C6_Witness ==
    \E t \in Callers :
        /\ store = "sync" /\ Succeeded(t, "add_chunks")
        /\ \E k \in 1..Len(th[t].chunks) :
              /\ th[t].old[k] # <<>>
              /\ th[t].old[k][1].content # th[t].chunks[k].content
              /\ GetChunk(th[t].chunks[k].chunk_id)[1].content = th[t].chunks[k].content

\* the number of chunk rows whose source_file is f
RowsOf(f) == Cardinality({id \in DOMAIN chunks : chunks[id].source_file = f})

\* C7: between calls, the chunk_count of every file record equals the number
\* of chunk rows stored for that filepath.
C7_Claim ==
    (\A t \in Callers : th[t].pc \in {"idle", "done"}) =>
        \A f \in DOMAIN files : files[f] = RowsOf(f)

\* C8: after the add_chunks of an ingestion of a source file returned,
\* get_file_chunks(source) returns exactly the chunks of that ingestion.
C8_Claim ==
    \A t \in Callers :
        (store = "sync" /\ Succeeded(t, "add_chunks") /\ th[t].chunks # <<>>) =>
            GetFileChunks(th[t].chunks[1].source_file)
                = [k \in 1..Len(th[t].chunks) |-> Row(th[t].chunks[k])]

\* C9: after clear() returned, get_statistics() reports total_chunks = 0,
\* total_files = 0 and vector_count = 0, and the snapshot file holds the
\* empty map.
C9_Theorem ==
    \A t \in Callers :
        Succeeded(t, "clear") =>
            /\ GetStatistics = [total_files |-> 0, total_chunks |-> 0, vector_count |-> 0]
            /\ fs[VectorPath] = Pickle(<<>>)
            /\ LoadVectors(fs[VectorPath]) = <<>>

\* clear() returned on a store that held rows, file records and a snapshot
\* with embeddings
C9_Witness ==
    \E t \in Callers :
        /\ Succeeded(t, "clear")
        /\ th[t].before # <<>>
        /\ GetStatistics.vector_count = 0
        /\ fs[VectorPath].exists

\* t is inside _save_vectors, between the open of the file and the rename
InSave(t) == th[t].pc \in {"dump", "rename", "adump", "arename"}

\* C10: when the process dies while a caller is inside _save_vectors, the
\* load of the restarted store yields the map of the last completed snapshot
\* or the map that was being written, whole.
C10_Theorem ==
    [][\A t \in Callers :
          (InSave(t) /\ th'[t].pc = "idle") =>
              /\ LoadVectors(fs'[VectorPath]) \in {th[t].before, th[t].saving}
              /\ (store = "sync" => vectors' = LoadVectors(fs'[VectorPath]))]_vars

\* the process died in the middle of the write: a cut-short temporary file is
\* left, and a restarted store that holds the last completed snapshot
C10_Witness ==
    /\ \A t \in Callers : th[t].pc = "idle"
    /\ fs[TempPath].exists
    /\ fs[TempPath].data # <<>>
    /\ ~UnpickleOK(fs[TempPath])
    /\ LoadVectors(fs[VectorPath]) # <<>>
    /\ (store = "sync" => vectors = LoadVectors(fs[VectorPath]))

(***************************************************************************)
(* SpecSearch: one search of either store, which holds an earlier          *)
(* ingestion, with every query, limit and threshold; the asynchronous      *)
(* store is new, or has answered a search before.                          *)
(***************************************************************************)
\* An AsyncVectorStore over p that has answered search_similar(q, limit, thr):
\* it is initialised and the decorator's cache holds the result.
AsyncSearched(p, q, limit, thr) ==
    LET top == TopSimilarities(LoadVectors(p.vector_file), q, limit, thr)
    IN  /\ ~Raises(q, LoadVectors(p.vector_file))
        /\ store = "async"
        /\ DiskInit(p)
        /\ UsedLocks
        /\ initialized = TRUE
        /\ vectors = LoadVectors(p.vector_file)
        /\ memo = <<[key |-> <<"search_similar", q, limit, thr>>,
                     value |-> IF top = <<>> THEN <<>> ELSE JoinedResults(p.chunks, top)]>>

InitSearch ==
    /\ \E p \in PriorStores :
          \/ SyncInit(p)
          \/ AsyncInit(p)
          \/ \E q \in Queries : \E limit \in Limits : \E thr \in Thresholds :
                AsyncSearched(p, q, limit, thr)
    /\ th = [t \in Callers |-> IdleT]

NextSearch ==
    \/ \E q \in Queries : \E limit \in Limits : \E thr \in Thresholds :
          \/ search("c1", q, limit, thr)
          \/ search_similar("c1", q, limit, thr)
    \/ search_scan("c1")
    \/ initialize("c1")
    \/ get_connection("c1")
    \/ get_connection_opened("c1")
    \/ init_database("c1")
    \/ return_connection("c1")
    \/ load_vectors("c1")
    \/ load_vectors_done("c1")
    \/ search_similar_scan("c1")
    \/ search_similar_select("c1")

SpecSearch == InitSearch /\ [][NextSearch]_vars

\* the search of t has returned a list
Searched(t) == Succeeded(t, "search") \/ Succeeded(t, "search_similar")

\* C5: for every store content, query, limit >= 0 and threshold, the list a
\* search returns has no entry with a score below the threshold, has at most
\* limit entries, and is in descending order of score (VectorStore.search and
\* AsyncVectorStore.search_similar, cached results included).
C5_Theorem ==
    \A t \in Callers :
        (Searched(t) /\ th[t].limit >= 0) =>
            LET out == th[t].out
            IN  /\ \A k \in 1..Len(out) : ScoreGE(out[k].score, th[t].thr)
                /\ Len(out) <= th[t].limit
                /\ \A j \in 1..Len(out) : \A k \in j..Len(out) :
                      ScoreGE(out[j].score, out[k].score)

\* a search returned two entries of different scores, in the reverse of the
\* order in which the map holds them
C5_Witness ==
    \E t \in Callers :
        /\ Searched(t)
        /\ Len(th[t].out) = 2
        /\ ~ScoreGE(th[t].out[2].score, th[t].out[1].score)
        /\ Len(th[t].seen) = 2
        /\ th[t].seen[1].id = th[t].out[2].id

(***************************************************************************)
(* SpecAsync: three tasks on one event loop, each calling add_chunks once  *)
(* on an AsyncVectorStore that was constructed and not yet initialised.    *)
(***************************************************************************)
\* batches of one chunk
TaskBatches == {<<TextChunk(f, k, "x")>> : f \in Files, k \in 0..(MaxChunks - 1)}

InitAsync ==
    /\ \E p \in SeqPriorStores : AsyncInit(p)
    /\ th = [t \in Callers |-> IdleT]

NextAsync ==
    \E t \in Callers :
        \/ \E cs \in TaskBatches : \E es \in EmbeddingLists(cs) : async_add_chunks(t, cs, es)
        \/ initialize(t)
        \/ get_connection(t)
        \/ get_connection_permit(t)
        \/ get_connection_locked(t)
        \/ get_connection_opened(t)
        \/ init_database(t)
        \/ return_connection(t)
        \/ return_connection_locked(t)
        \/ load_vectors(t)
        \/ load_vectors_locked(t)
        \/ load_vectors_done(t)
        \/ async_add_chunks_check(t)
        \/ async_add_chunks_commit(t)
        \/ async_add_chunks_vectors(t)
        \/ async_add_chunks_vectors_locked(t)
        \/ async_save_vectors(t)
        \/ async_save_vectors_locked(t)
        \/ async_save_vectors_dump(t)
        \/ async_save_vectors_rename(t)

SpecAsync == InitAsync /\ [][NextAsync]_vars

\* what the store holds in memory, or will load when it is first used
CurrentMap == IF initialized THEN vectors ELSE LoadVectors(fs[VectorPath])

\* C1: a step of an add_chunks call whose lists differ in length changes
\* neither the chunk rows, nor the file records, nor the snapshot, nor the
\* content of the embedding map.
C1_Claim ==
    [][\A t \in Callers :
          ( /\ th[t].op = "add_chunks"
            /\ Len(th[t].chunks) # Len(th[t].embs)
            /\ th'[t] # th[t] )
          => /\ chunks' = chunks
             /\ files' = files
             /\ fs' = fs
             /\ CurrentMap' = CurrentMap]_vars

\* C2: once all tasks have returned from add_chunks of pairwise disjoint chunk
\* ids, every added chunk id has its row and its entry in the embedding map.
C2_Claim ==
    ( /\ \A t \in Callers : Succeeded(t, "add_chunks")
      /\ \A t \in Callers : \A u \in Callers \ {t} :
            BatchIds(th[t].chunks) \cap BatchIds(th[u].chunks) = {} )
    => \A t \in Callers :
          /\ BatchIds(th[t].chunks) \subseteq DOMAIN chunks
          /\ BatchIds(th[t].chunks) \subseteq Keys(vectors)

(***************************************************************************)
(* SpecFault: one caller, one call after the other, on either store, where *)
(* a snapshot write and a statement of the database may fail.              *)
(***************************************************************************)
\* the batches of the calls: file "a" cut into chunks of content "x"
FaultBatches == {cs \in Ingestions("a") : \A k \in 1..Len(cs) : cs[k].content = "x"}

\* the embeddings of the chunks cs from a model of another dimension
OtherModel(cs) == [k \in 1..Len(cs) |-> <<1>>]

\* the embedding lists of the calls: the embedder's, or another model's
FaultEmbeddings(cs) == {EmbedAll(cs), OtherModel(cs)}

InitFault ==
    /\ \E p \in SeqPriorStores : SyncInit(p) \/ AsyncInit(p)
    /\ th = [t \in Callers |-> IdleT]

NextFault ==
    \/ \E cs \in FaultBatches : \E es \in FaultEmbeddings(cs) :
          CountsFit(cs) /\ add_chunks("c1", cs, es)
    \/ clear("c1")
    \/ SyncSteps("c1")
    \/ save_vectors_failed("c1")
    \/ add_chunks_failed("c1")
    \/ \E cs \in FaultBatches : \E es \in FaultEmbeddings(cs) :
          async_add_chunks("c1", cs, es)
    \/ AsyncSteps("c1")
    \/ async_save_vectors_failed("c1")
    \/ async_add_chunks_failed("c1")
    \/ Return("c1")

SpecFault == InitFault /\ [][NextFault]_vars

\* C11: when the snapshot write of add_chunks or clear fails, the call returns
\* without an exception, the in-memory map is the one that was to be written
\* (with the batch just added), the snapshot file holds what it held before
\* and no temporary file is left.
C11_Theorem ==
    \A t \in Callers :
        (th[t].pc = "done" /\ th[t].save_failed) =>
            /\ th[t].result = "ok"
            /\ vectors = th[t].saving
            /\ th[t].op = "add_chunks" =>
                  \A k \in 1..Len(th[t].chunks) :
                      /\ th[t].chunks[k].chunk_id \in Keys(vectors)
                      /\ vectors[IndexOf(vectors, th[t].chunks[k].chunk_id)].emb
                             = th[t].embs[k]
            /\ LoadVectors(fs[VectorPath]) = th[t].before
            /\ ~fs[TempPath].exists

\* an add_chunks of chunks returned after its snapshot write had failed,
\* on a store that had a snapshot of other content
C11_Witness ==
    \E t \in Callers :
        /\ th[t].pc = "done" /\ th[t].save_failed
        /\ th[t].op = "add_chunks" /\ th[t].chunks # <<>>
        /\ th[t].before # <<>>
        /\ th[t].before # vectors

\* C13: after add_chunks failed with an error of the database, the in-memory
\* map is the one from before, and no row of the failed batch can be read from
\* the database: not among the committed rows, and not by the next statement
\* on any connection the pool hands out.
C13_Claim ==
    \A t \in Callers :
        (th[t].pc = "done" /\ th[t].op = "add_chunks" /\ th[t].result = "sqlite3.Error") =>
            /\ vectors = th[t].map_before
            /\ \A k \in 1..Len(pool) :
                  \A j \in 1..Len(th[t].chunks) :
                      LET id == th[t].chunks[j].chunk_id
                      IN  id \in DOMAIN ViewOf(pool[k]) =>
                             /\ id \in DOMAIN chunks
                             /\ ViewOf(pool[k])[id] = chunks[id]

\* C14: all embeddings in the map of one store have the same dimension: an
\* add_chunks with an embedding of another dimension than the stored ones
\* leaves none of it in the map.
C14_Claim ==
    \A i \in 1..Len(vectors) : \A j \in 1..Len(vectors) :
        Len(vectors[i].emb) = Len(vectors[j].emb)

(***************************************************************************)
(* SpecPool: the connections of either store.  Threads use and close the   *)
(* DatabasePool of the threaded store, each call after the other; one      *)
(* caller of the async store adds chunks and asks for the chunk count,     *)
(* whose SELECT may fail.                                                  *)
(***************************************************************************)
InitPool ==
    /\ SyncInit(Persisted(<<>>)) \/ \E p \in SeqPriorStores : AsyncInit(p)
    /\ th = [t \in Callers |-> IdleT]

NextPool ==
    \/ \E t \in Callers :
          \/ pool_get_connection(t)
          \/ pool_create_temporary(t)
          \/ pool_mark_in_use(t)
          \/ pool_body(t)
          \/ pool_release(t)
          \/ close_all(t)
          \/ Return(t)
    \/ \E cs \in TaskBatches : async_add_chunks("c1", cs, EmbedAll(cs))
    \/ AsyncSteps("c1")
    \/ get_chunk_count("c1")
    \/ get_chunk_count_body("c1")
    \/ get_chunk_count_select("c1")
    \/ get_chunk_count_failed("c1")

SpecPool == InitPool /\ [][NextPool]_vars

\* the connections callers hold between get and release
Held == {th[t].held : t \in {u \in Callers : th[u].pc \in {"mark", "with", "release"}}}

\* C15: a connection made by the fallback, while max_connections connections
\* existed and none was idle, is never in the idle pool, and once released it
\* is closed.
C15_Claim ==
    \A c \in db_pool.temporary :
        /\ \A k \in 1..Len(db_pool.pool) : db_pool.pool[k] # c
        /\ c \notin Held => c \in db_pool.closed

\* the callers inside the with statement of DatabasePool.get_connection
InWith == {t \in Callers : th[t].pc \in {"with", "release"}}

\* the tasks between the semaphore's acquire in _get_connection and its
\* release in _return_connection
HoldsPermit(t) ==
    th[t].pc \in {"pool_wait", "conn_open", "init_ddl", "add_exec", "vec", "vec_wait",
                  "asave", "asave_wait", "adump", "arename", "select", "count",
                  "ret_conn", "ret_wait"}

\* C16: every connection in use belongs to a caller that is still inside its
\* with statement, and every permit taken belongs to a task that has yet to
\* return its connection, whether the bodies completed or raised: once all
\* users have exited, no connection is in use and no permit is taken.
C16_Theorem ==
    /\ db_pool.in_use \subseteq {th[t].held : t \in InWith}
    /\ permits = max_connections - Cardinality({t \in Callers : HoldsPermit(t)})
    /\ (\A t \in Callers : th[t].pc \in {"idle", "done"}) =>
          db_pool.in_use = {} /\ permits = max_connections

\* all three users have exited, one of them with the exception its body
\* raised, and two connections are idle again
C16_Witness ==
    /\ \A t \in Callers : th[t].pc = "done" /\ th[t].op = "get_connection"
    /\ \E t \in Callers : th[t].raised
    /\ Len(db_pool.pool) > 1

\* C18: close_all closes every idle and every in-use connection, returns
\* without an exception and leaves get_stats at zero idle, zero in use and
\* zero created; a close_all on that state leaves it as it is.
C18_Theorem ==
    [][\A t \in Callers :
          close_all(t) =>
              /\ th'[t].result = "ok"
              /\ get_stats' = <<0, 0, 0>>
              /\ \A c \in db_pool.in_use \cup {db_pool.pool[k] : k \in 1..Len(db_pool.pool)} :
                    c \in db_pool'.closed
              /\ get_stats = <<0, 0, 0>> => get_stats' = get_stats]_vars

\* close_all has returned twice while a thread was using a connection, which
\* is now closed
C18_Witness ==
    \E t \in Callers : \E u \in Callers : \E v \in Callers :
        /\ t # u
        /\ th[t].pc = "done" /\ th[t].op = "close_all"
        /\ th[u].pc = "done" /\ th[u].op = "close_all"
        /\ th[v].pc = "with" /\ th[v].held \in db_pool.closed
        /\ get_stats = <<0, 0, 0>>

\* C19: a get_chunk_count that the cache answers, after add_chunks returned,
\* gives the number of rows stored: add_chunks leaves no older count cached.
C19_Claim ==
    \A t \in Callers :
        (Succeeded(t, "get_chunk_count") /\ th[t].hit) =>
            th[t].out = <<Cardinality(DOMAIN chunks)>>

(***************************************************************************)
(* SpecConn: tasks asking one AsyncVectorStore for its chunk count, again  *)
(* and again, where opening a connection may fail.  The event loop runs    *)
(* every task that can go on.                                              *)
(***************************************************************************)
InitConn ==
    /\ \E p \in SeqPriorStores : AsyncInit(p)
    /\ th = [t \in Callers |-> IdleT]

StepConn(t) ==
    \/ get_chunk_count(t)
    \/ initialize(t)
    \/ get_connection(t)
    \/ get_connection_permit(t)
    \/ get_connection_locked(t)
    \/ get_connection_opened(t)
    \/ get_connection_failed(t)
    \/ init_database(t)
    \/ return_connection(t)
    \/ return_connection_locked(t)
    \/ load_vectors(t)
    \/ load_vectors_locked(t)
    \/ load_vectors_done(t)
    \/ get_chunk_count_body(t)
    \/ get_chunk_count_select(t)
    \/ Return(t)

NextConn == \E t \in Callers : StepConn(t)

SpecConn == InitConn /\ [][NextConn]_vars /\ \A t \in Callers : WF_vars(StepConn(t))

\* C17: a caller that waits for a permit of the connection semaphore can
\* still get one: a permit is free, or a task holds one and will give it back
\* with its connection.  Otherwise the caller waits for ever, however the
\* tasks are scheduled.
C17_Claim ==
    (\E t \in Callers : th[t].pc = "sem_wait") =>
        \/ permits > 0
        \/ \E u \in Callers : HoldsPermit(u)

(***************************************************************************)
(* SpecCache: any sequence of get, set, delete and clear on one            *)
(* MemoryCache, as time goes by.                                           *)
(***************************************************************************)
CacheKeys == {"k1", "k2", "k3"}

\* the ttl of a set, in ticks of the clock
CacheTtls == {1, 2}

InitCache ==
    /\ SyncInit(Persisted(<<>>))
    /\ th = [t \in Callers |-> IdleT]

NextCache ==
    \/ \E key \in CacheKeys : cache_get(key)
    \/ \E key \in CacheKeys : \E value \in Contents : \E ttl \in CacheTtls :
          cache_set(key, value, ttl)
    \/ \E key \in CacheKeys : cache_delete(key)
    \/ cache_clear
    \/ tick

SpecCache == InitCache /\ [][NextCache]_vars

\* C20: after any sequence of get, set, delete and clear the cache holds at
\* most max_size entries, and the entry table and the access-time table have
\* the same keys.
C20_Theorem ==
    /\ Cardinality(DOMAIN cache) <= max_size
    /\ DOMAIN cache = DOMAIN access_times

\* a full cache whose entry was read, later than it was set, at the last
\* moment before it expires
C20_Witness ==
    /\ Cardinality(DOMAIN cache) = max_size
    /\ \E key \in DOMAIN cache : access_times[key] = cache[key].expires

(***************************************************************************)
(* TextChunker (embeddings/chunker.py).  A text is a sequence of           *)
(* characters: a letter, a full stop or a blank.  The three sizes of the   *)
(* constructor are scaled down from 500, 50 and 100.                       *)
(***************************************************************************)
chunk_size == 5
chunk_overlap == 1
min_chunk_size == 4

\* the longest text given to chunk_text
MaxText == 8

Chars == {"a", ".", " "}

RECURSIVE lstrip(_)
lstrip(s) == IF s # <<>> /\ Head(s) = " " THEN lstrip(Tail(s)) ELSE s

RECURSIVE rstrip(_)
rstrip(s) ==
    IF s # <<>> /\ s[Len(s)] = " " THEN rstrip(SubSeq(s, 1, Len(s) - 1)) ELSE s

\* str.strip()
strip(s) == rstrip(lstrip(s))

RECURSIVE CollapseSpace(_)
\* re.sub(r'\s+', ' ', text): every run of blanks becomes one blank
CollapseSpace(s) ==
    IF s = <<>> THEN <<>>
    ELSE IF Head(s) = " " THEN <<" ">> \o CollapseSpace(lstrip(s))
    ELSE <<Head(s)>> \o CollapseSpace(Tail(s))

\* _clean_text; its second substitution finds no newline after the first one
clean_text(text) == strip(CollapseSpace(text))

RECURSIVE SplitFrom(_, _)
\* re.split(r'(?<=[.!?])\s+', text), cur being the piece read so far: a run
\* of blanks that follows a full stop ends the piece and is dropped
SplitFrom(s, cur) ==
    IF s = <<>> THEN <<cur>>
    ELSE IF Head(s) = " " /\ cur # <<>> /\ cur[Len(cur)] = "."
         THEN <<cur>> \o SplitFrom(lstrip(s), <<>>)
         ELSE SplitFrom(Tail(s), Append(cur, Head(s)))

Sentences(text) == SplitFrom(text, <<>>)

\* _create_chunk: the TextChunk, chunk_num standing for its chunk_id
create_chunk(content, chunk_num, start_pos, end_pos) ==
    [content |-> content, chunk_num |-> chunk_num,
     start_pos |-> start_pos, end_pos |-> end_pos]

\* the loop variables of _chunk_by_sentences before the first sentence
SentenceStart ==
    [chunks |-> <<>>, current_chunk |-> <<>>, current_start |-> 0, chunk_count |-> 0]

\* one iteration of the loop of _chunk_by_sentences
AddSentence(st, sentence) ==
    IF Len(st.current_chunk) + Len(sentence) > chunk_size /\ st.current_chunk # <<>>
    THEN LET cur == st.current_chunk
             chunk == create_chunk(strip(cur), st.chunk_count, st.current_start,
                                   st.current_start + Len(cur))
             overlap_start == IF Len(cur) - chunk_overlap > 0
                              THEN Len(cur) - chunk_overlap ELSE 0
         IN  [chunks |-> Append(st.chunks, chunk),
              current_chunk |-> SubSeq(cur, overlap_start + 1, Len(cur)) \o <<" ">>
                                   \o sentence,
              current_start |-> st.current_start + overlap_start,
              chunk_count |-> st.chunk_count + 1]
    ELSE [st EXCEPT !.current_chunk = IF @ # <<>> THEN @ \o <<" ">> \o sentence
                                      ELSE sentence]

RECURSIVE AddSentences(_, _)
AddSentences(st, ss) ==
    IF ss = <<>> THEN st ELSE AddSentences(AddSentence(st, Head(ss)), Tail(ss))

\* a sentence pass that keeps its final chunk whatever its length
chunk_by_sentences_all(text) ==
    LET st == AddSentences(SentenceStart, Sentences(text))
        cur == st.current_chunk
    IN  IF strip(cur) # <<>>
        THEN Append(st.chunks, create_chunk(strip(cur), st.chunk_count, st.current_start,
                                            st.current_start + Len(cur)))
        ELSE st.chunks

\* _chunk_by_sentences: the loop, then the final chunk if it is long enough
chunk_by_sentences(text) ==
    LET st == AddSentences(SentenceStart, Sentences(text))
        cur == st.current_chunk
    IN  IF strip(cur) # <<>> /\ Len(strip(cur)) >= min_chunk_size
        THEN Append(st.chunks, create_chunk(strip(cur), st.chunk_count, st.current_start,
                                            st.current_start + Len(cur)))
        ELSE st.chunks

RECURSIVE CharsFrom(_, _, _)
\* the loop of _chunk_by_characters from offset i on, acc the chunks so far
CharsFrom(text, i, acc) ==
    IF i >= Len(text) THEN acc
    ELSE LET last == IF i + chunk_size < Len(text) THEN i + chunk_size ELSE Len(text)
             window == SubSeq(text, i + 1, last)
         IN  CharsFrom(text, i + (chunk_size - chunk_overlap),
                       IF Len(strip(window)) >= min_chunk_size
                       THEN Append(acc, create_chunk(strip(window), Len(acc), i,
                                                    i + Len(window)))
                       ELSE acc)

\* _chunk_by_characters
chunk_by_characters(text) == CharsFrom(text, 0, <<>>)

\* a chunk_text that never falls back to character windows
TooLargeNever(cs) == FALSE

\* any(len(chunk.content) > self.chunk_size * 1.5 for chunk in chunks)
TooLarge(cs) == \E k \in 1..Len(cs) : 2 * Len(cs[k].content) > 3 * chunk_size

\* chunk_text: what it returns for text
Chunked(text) ==
    IF text = <<>> \/ Len(strip(text)) < min_chunk_size THEN <<>>
    ELSE LET cleaned_text == clean_text(text)
             by_sentence == chunk_by_sentences(cleaned_text)
         IN  IF TooLarge(by_sentence) THEN chunk_by_characters(cleaned_text)
             ELSE by_sentence

\* TextChunker.chunk_text(text, source_file); the chunker keeps nothing from
\* one call to the next, so one call per behaviour shows every result
chunk_text(text) ==
    /\ ~doc.called
    /\ doc' = [called |-> TRUE, text |-> text, cleaned |-> clean_text(text),
               chunks |-> Chunked(text)]
    /\ UNCHANGED <<corevars, rag, stream>>

\* the texts of n characters
TextsOf(n) == [1..n -> Chars]

(***************************************************************************)
(* SpecChunk: chunk_text applied to every text of at most MaxText          *)
(* characters.                                                             *)
(***************************************************************************)
InitChunk ==
    /\ SyncInit(Persisted(<<>>))
    /\ th = [t \in Callers |-> IdleT]

NextChunk == \E n \in 0..MaxText : \E text \in TextsOf(n) : chunk_text(text)

SpecChunk == InitChunk /\ [][NextChunk]_vars

\* the positions of the cleaned text inside the span of some chunk
Covered == {p \in 0..(Len(doc.cleaned) - 1) :
               \E k \in 1..Len(doc.chunks) :
                  doc.chunks[k].start_pos <= p /\ p < doc.chunks[k].end_pos}

RECURSIVE Joined(_, _)
\* the chunk contents put together in order, each one without the part of
\* its span that the text so far already holds
Joined(cs, out) ==
    IF cs = <<>> THEN out
    ELSE LET c == Head(cs)
             skip == IF Len(out) > c.start_pos THEN Len(out) - c.start_pos ELSE 0
         IN  Joined(Tail(cs), out \o SubSeq(c.content, skip + 1, Len(c.content)))

\* C21: for a text whose cleaned length is at least min_chunk_size the chunks
\* cover the cleaned text without gaps: every position lies in the span of
\* some chunk, and the contents, overlaps removed, give the cleaned text back.
C21_Claim ==
    doc.called /\ Len(doc.cleaned) >= min_chunk_size =>
        /\ Covered = 0..(Len(doc.cleaned) - 1)
        /\ Joined(doc.chunks, <<>>) = doc.cleaned

\* C30: every chunk that chunk_text returns, except possibly the last one,
\* has a content of at least min_chunk_size characters, and every chunk has
\* end_pos >= start_pos.
C30_Claim ==
    doc.called =>
        /\ \A k \in 1..(Len(doc.chunks) - 1) :
              Len(doc.chunks[k].content) >= min_chunk_size
        /\ \A k \in 1..Len(doc.chunks) : doc.chunks[k].end_pos >= doc.chunks[k].start_pos

(***************************************************************************)
(* RAGPipeline.query (llm/rag_pipeline.py) over a VectorStore, an          *)
(* EmbeddingModel and an OllamaClient.  Each of the components handles its *)
(* own exceptions; a step that fails is an input of the action.            *)
(***************************************************************************)
Apology == "I apologize, but I encountered an error processing your request."

\* how a request to Ollama ends: status 200, another status, or an exception
LlmOutcomes == {"ok", "status", "raises"}

\* the content of the message of a 200 reply
LlmTexts == {"answer", ""}

\* OllamaClient.generate: the text it returns
ollama_generate(outcome, text) ==
    CASE outcome = "ok"     -> text
      [] outcome = "status" -> "Sorry, I encountered an error generating a response."
      [] outcome = "raises" -> "Sorry, I'm having trouble connecting to the AI model."

\* OllamaClient.chat: the text it returns
ollama_chat(outcome, text) ==
    CASE outcome = "ok"     -> text
      [] outcome = "status" -> "Sorry, I encountered an error during our conversation."
      [] outcome = "raises" -> "Sorry, I'm having trouble processing your message."

\* VectorStore.get_chunk_count: COUNT(*), or 0 when the statement fails
ChunkCount(fails) == IF fails THEN 0 ELSE Cardinality(DOMAIN chunks)

RECURSIVE ScanAll(_, _, _)
\* the loop of VectorStore.search over the whole map
ScanAll(v, q, thr) ==
    IF v = <<>> THEN <<>>
    ELSE Collect(ScanAll(SubSeq(v, 1, Len(v) - 1), q, thr), q, v[Len(v)], thr)

\* VectorStore.search called by one thread: [] for an empty map and for any
\* exception, else the hits sorted and sliced
SearchOf(q, limit, thr, fails) ==
    IF fails \/ vectors = <<>> THEN <<>>
    ELSE Slice(SortDesc(ScanAll(vectors, q, thr)), limit)

\* VectorStore.get_chunk_metadata: the row, or None (<<>>) when there is no
\* row or the lookup fails; lost holds the ids whose lookup fails
get_chunk_metadata(id, lost) ==
    IF id \in lost \/ id \notin DOMAIN chunks THEN <<>> ELSE <<chunks[id]>>

RECURSIVE Sources(_, _)
\* the loop over similar_chunks: one source per hit whose row was found, its
\* content cut to a preview
Sources(hits, lost) ==
    IF hits = <<>> THEN <<>>
    ELSE LET rest == Sources(SubSeq(hits, 1, Len(hits) - 1), lost)
             hit == hits[Len(hits)]
             chunk_data == get_chunk_metadata(hit.id, lost)
         IN  IF chunk_data = <<>> THEN rest
             ELSE Append(rest, [chunk_id |-> hit.id,
                                content |-> <<chunk_data[1].content, "...">>,
                                source_file |-> chunk_data[1].source_file,
                                similarity_score |-> hit.score])

\* context_text: the parts "Source: <file>\n<content>" in order; joining them
\* and cutting the text at max_context_length leaves a text that is empty
\* exactly if there is no part
ContextOf(sources) ==
    [k \in 1..Len(sources) |->
        [source_file |-> sources[k].source_file, content |-> sources[k].content[1]]]

\* a chat message
Message(role, content) == [role |-> role, content |-> content]

\* a history entry that is no dict (a bare string), marked by its role
Junk == Message("no dict", "junk")

Histories == {<<>>, <<Message("user", "hi")>>, <<Junk>>,
              <<Message("user", "hi"), Message("assistant", "hello")>>}

\* chat_history[-n:]
LastN(h, n) == SubSeq(h, IF Len(h) > n THEN Len(h) - n + 1 ELSE 1, Len(h))

\* _create_rag_prompt raises AttributeError on msg.get for an entry among the
\* last three that is no dict
PromptRaises(chat_history) ==
    \E k \in 1..Len(LastN(chat_history, 3)) : LastN(chat_history, 3)[k] = Junk

\* _create_rag_prompt
create_rag_prompt(user_query, context, chat_history) ==
    [history |-> LastN(chat_history, 3), context |-> context, question |-> user_query]

\* the condition of the retrieval without its first conjunct
RetrievesAlways(use_context, count_fails) == ChunkCount(count_fails) > 0

\* if use_context and self.vector_store.get_chunk_count() > 0
Retrieves(use_context, count_fails) == use_context /\ ChunkCount(count_fails) > 0

\* the RAGResult of the except branch of query
ApologyResult ==
    [response |-> Apology, sources |-> <<>>, context_used |-> <<>>, retrieval_count |-> 0]

\* RAGPipeline.query(user_query, chat_history, max_sources,
\* similarity_threshold, use_context).  embedding is what embed_query returns
\* (random numbers, also when the model fails); fails names the steps that
\* fail when they run, lost the chunk ids whose lookup fails, outcome and
\* text the reply of Ollama.
query(user_query, chat_history, max_sources, thr, use_context, embedding, fails, lost, outcome, text) ==
    /\ ~rag.called
    /\ LET retrieve == Retrieves(use_context, "count" \in fails)
           hits == IF retrieve
                   THEN SearchOf(embedding, max_sources, thr, "search" \in fails)
                   ELSE <<>>
           sources == Sources(hits, lost)
           context_text == ContextOf(sources)
           with_context == use_context /\ context_text # <<>>
           raised == with_context /\ PromptRaises(chat_history)
           messages == chat_history \o <<Message("user", user_query)>>
           response == IF with_context THEN ollama_generate(outcome, text)
                       ELSE ollama_chat(outcome, text)
           failed == {f \in fails : \/ f = "count" /\ use_context
                                    \/ f \in {"embed", "search"} /\ retrieve}
                     \cup (IF \E k \in 1..Len(hits) : hits[k].id \in lost
                           THEN {"lookup"} ELSE {})
                     \cup (IF ~raised /\ outcome # "ok" THEN {"llm"} ELSE {})
       IN  rag' = [called |-> TRUE, use_context |-> use_context,
                   chat_history |-> chat_history, user_query |-> user_query,
                   embed_calls |-> IF retrieve THEN 1 ELSE 0,
                   search_calls |-> IF retrieve THEN 1 ELSE 0,
                   lookups |-> Len(hits),
                   generate_calls |-> IF with_context /\ ~raised THEN 1 ELSE 0,
                   chat_calls |-> IF with_context THEN 0 ELSE 1,
                   prompt |-> IF with_context /\ ~raised
                              THEN <<create_rag_prompt(user_query, context_text,
                                                       chat_history)>>
                              ELSE <<>>,
                   messages |-> IF with_context THEN <<>> ELSE messages,
                   llm_text |-> IF raised THEN <<>> ELSE <<response>>,
                   failed |-> failed,
                   propagated |-> FALSE,
                   result |-> IF raised THEN ApologyResult
                              ELSE [response |-> response, sources |-> sources,
                                    context_used |-> context_text,
                                    retrieval_count |-> Len(sources)]]
    /\ UNCHANGED <<corevars, doc, stream>>

(***************************************************************************)
(* SpecRag: one query on a pipeline whose store holds none, one or two     *)
(* chunks, with every combination of failing steps.                        *)
(***************************************************************************)
RagQueries == {<<1, 0>>, <<0, 1>>}

RagThresholds == {Zero, Score(7, 100)}

Steps == {"count", "embed", "search"}

InitRag ==
    /\ \E p \in PriorStores : SyncInit(p)
    /\ th = [t \in Callers |-> IdleT]

NextRag ==
    \E chat_history \in Histories, max_sources \in 1..MaxLimit, thr \in RagThresholds,
       use_context \in BOOLEAN, embedding \in RagQueries, fails \in SUBSET Steps,
       lost \in SUBSET DOMAIN chunks, outcome \in LlmOutcomes, text \in LlmTexts :
        query("q", chat_history, max_sources, thr, use_context,
              embedding, fails, lost, outcome, text)

SpecRag == InitRag /\ [][NextRag]_vars

\* C22: a query with use_context = False calls neither the embedding
\* provider nor the search of the store, calls the LLM exactly once, through
\* chat with the history followed by the current message, and returns the
\* text of the LLM as the response, with an empty source list.
C22_Theorem ==
    rag.called /\ ~rag.use_context =>
        /\ rag.embed_calls = 0 /\ rag.search_calls = 0 /\ rag.lookups = 0
        /\ rag.chat_calls = 1 /\ rag.generate_calls = 0
        /\ rag.messages = rag.chat_history \o <<Message("user", rag.user_query)>>
        /\ rag.llm_text = <<rag.result.response>>
        /\ rag.result.sources = <<>>
        /\ ~rag.propagated

\* a query without context, with a history, on a store that holds chunks,
\* answered by the LLM
C22_Witness ==
    /\ rag.called /\ ~rag.use_context
    /\ chunks # EmptyTable /\ vectors # <<>>
    /\ rag.chat_history # <<>>
    /\ rag.result.response = "answer"

\* C23: when the embedding step, the search, a chunk lookup or the LLM call
\* fails during query, the failure does not leave query and the result is
\* the apology with no sources, no context and retrieval_count 0.
C23_Claim ==
    rag.called /\ rag.failed \cap {"embed", "search", "lookup", "llm"} # {} =>
        /\ ~rag.propagated
        /\ rag.result = ApologyResult

(***************************************************************************)
(* chat_with_rag_stream.generate_sse_stream (api/query.py and              *)
(* api/query_fixed.py): an async generator that the response task resumes  *)
(* for one event after the other.  It is suspended either at a yield,      *)
(* while the task sends the event, or in asyncio.sleep.  Cancelling the    *)
(* task raises CancelledError at the await where the task waits: inside    *)
(* the generator when it sleeps; outside it when it stands at a yield,     *)
(* and closing the generator then raises GeneratorExit at that yield.      *)
(***************************************************************************)
Variants == {"query", "query_fixed"}

\* the classes below Exception before Python 3.8, CancelledError among them
ExceptionClassesWithCancel == {"ValueError", "TypeError", "RuntimeError", "CancelledError"}

\* the exception classes below Exception; CancelledError and GeneratorExit
\* derive from BaseException
ExceptionClasses == {"ValueError", "TypeError", "RuntimeError"}

\* does an except clause for class handler catch an exception of class exc?
Catches(handler, exc) ==
    \/ handler = exc
    \/ handler = "Exception" /\ exc \in ExceptionClasses

Event(type, data) == [event |-> type, data |-> data]

\* for i, sentence in enumerate(sentences): the index of the first sentence
\* from i on with sentence.strip() non-empty, 0 if there is none
NextSentence(sentences, i) ==
    IF \E k \in i..Len(sentences) : strip(sentences[k]) # <<>>
    THEN CHOOSE k \in i..Len(sentences) :
            /\ strip(sentences[k]) # <<>>
            /\ \A j \in i..(k - 1) : strip(sentences[j]) = <<>>
    ELSE 0

\* the generator goes on to the sentence loop from index i: it sleeps first
\* (query.py, every fifth index), or yields the chunk, or, the loop being
\* over, yields the complete event
ToLoop(s, i) ==
    LET k == NextSentence(s.sentences, i)
    IN  IF k = 0
        THEN [s EXCEPT !.pc = "complete", !.i = Len(s.sentences) + 1,
                       !.events = Append(@, Event("complete", <<>>))]
        ELSE IF s.variant = "query" /\ (k - 1) % 5 = 0
        THEN [s EXCEPT !.pc = "sleep0", !.i = k]
        ELSE [s EXCEPT !.pc = "chunk", !.i = k,
                       !.events = Append(@, Event("chunk",
                                                  strip(s.sentences[k]) \o <<" ">>))]

\* The request arrives: the generator gets the pipeline and yields the status
\* event, or the error event when there is no pipeline.  response_text and
\* has_sources are what rag.query will return, query_raises whether it raises.
stream_open(variant, pipeline_ok, query_raises, has_sources, response_text) ==
    /\ stream.pc = "none"
    /\ stream' = [variant |-> variant, query_raises |-> query_raises,
                  has_sources |-> has_sources,
                  sentences |-> IF response_text = <<>> THEN <<>>
                                ELSE Sentences(response_text),
                  i |-> 1, cancelled |-> FALSE, at_cancel |-> 0, raised |-> "none",
                  pc |-> IF pipeline_ok THEN "status" ELSE "error",
                  events |-> IF pipeline_ok THEN <<Event("status", <<>>)>>
                             ELSE <<Event("error", <<>>)>>]
    /\ UNCHANGED <<corevars, doc, rag>>

\* The task resumes the generator, which runs to its next yield or sleep.
stream_resume ==
    /\ stream.pc \in {"status", "sources", "sleep0", "chunk", "sleep", "complete", "error"}
    /\ stream' =
         CASE stream.pc = "status" ->
                IF stream.query_raises
                THEN [stream EXCEPT !.pc = "error", !.events = Append(@, Event("error", <<>>))]
                ELSE IF stream.has_sources
                THEN [stream EXCEPT !.pc = "sources",
                                    !.events = Append(@, Event("sources", <<>>))]
                ELSE ToLoop(stream, 1)
           [] stream.pc = "sources" -> ToLoop(stream, 1)
           [] stream.pc = "sleep0" ->
                [stream EXCEPT !.pc = "chunk",
                               !.events = Append(@, Event("chunk",
                                             strip(stream.sentences[stream.i]) \o <<" ">>))]
           [] stream.pc = "chunk" -> [stream EXCEPT !.pc = "sleep"]
           [] stream.pc = "sleep" -> ToLoop(stream, stream.i + 1)
           [] stream.pc \in {"complete", "error"} -> [stream EXCEPT !.pc = "closed"]
    /\ UNCHANGED <<corevars, doc, rag>>

\* the except clauses around the generator's position, innermost first: in
\* query.py the sentence loop stands in a try with (ValueError, TypeError)
\* around the yield and one with Exception around the loop; both files end
\* with except asyncio.CancelledError: raise and except Exception
Handlers(s) ==
    (IF s.variant = "query" /\ s.pc = "chunk" THEN <<"ValueError", "TypeError">> ELSE <<>>)
    \o (IF s.variant = "query" /\ s.pc \in {"sleep0", "chunk", "sleep"}
        THEN <<"Exception">> ELSE <<>>)
    \o <<"CancelledError", "Exception">>

\* the first clause that catches exc, "none" if none does
Handler(hs, exc) ==
    IF \E k \in 1..Len(hs) : Catches(hs[k], exc)
    THEN hs[CHOOSE k \in 1..Len(hs) :
               Catches(hs[k], exc) /\ \A j \in 1..(k - 1) : ~Catches(hs[j], exc)]
    ELSE "none"

\* The client goes away and the response task is cancelled.  The exception
\* travels through the except clauses: the CancelledError clause raises it
\* again, an Exception clause would yield an error event.
stream_cancel ==
    /\ stream.pc \in {"status", "sources", "sleep0", "chunk", "sleep", "complete", "error"}
    /\ LET exc == IF stream.pc \in {"sleep0", "sleep"} THEN "CancelledError"
                  ELSE "GeneratorExit"
           h == Handler(Handlers(stream), exc)
       IN  stream' = [stream EXCEPT
                        !.cancelled = TRUE, !.at_cancel = Len(stream.events),
                        !.raised = exc, !.pc = "closed",
                        !.events = IF h \in {"Exception", "ValueError", "TypeError"}
                                   THEN Append(@, Event("error", <<>>)) ELSE @]
    /\ UNCHANGED <<corevars, doc, rag>>

(***************************************************************************)
(* SpecStream: one streaming response, cancelled at any point or not at    *)
(* all.                                                                    *)
(***************************************************************************)
\* the response texts: none, one sentence, two, three with blanks between
StreamTexts ==
    {<<>>, <<"a", ".">>, <<"a", ".", " ", "a">>,
     <<"a", ".", " ", " ", "a", ".", " ", "a", ".">>}

InitStream ==
    /\ SyncInit(Persisted(<<>>))
    /\ th = [t \in Callers |-> IdleT]

NextStream ==
    \/ \E variant \in Variants, pipeline_ok \in BOOLEAN, query_raises \in BOOLEAN,
          has_sources \in BOOLEAN, response_text \in StreamTexts :
          stream_open(variant, pipeline_ok, query_raises, has_sources, response_text)
    \/ stream_resume
    \/ stream_cancel

SpecStream == InitStream /\ [][NextStream]_vars

\* C24: when a streaming chat response is cancelled, emission stops at
\* once: after the cancellation no chunk event, no complete event and no
\* error event is emitted, and the generator is closed.
C24_Theorem ==
    stream.pc # "none" /\ stream.cancelled =>
        /\ stream.pc = "closed"
        /\ Len(stream.events) = stream.at_cancel

\* a response cancelled in the sleep after its first chunk, two sentences
\* being left
C24_Witness ==
    /\ stream.pc = "closed" /\ stream.cancelled
    /\ stream.raised = "CancelledError"
    /\ stream.i = 1 /\ Len(stream.sentences) = 3
    /\ stream.events[Len(stream.events)].event = "chunk"

(***************************************************************************)
(* SpecEmpty: one caller that searches and clears, on a store that starts  *)
(* empty or with chunks of file "a".                                       *)
(***************************************************************************)
NextEmpty ==
    \/ \E q \in Queries : \E limit \in {0, MaxLimit} : \E thr \in {Zero} :
          \/ search("c1", q, limit, thr)
          \/ search_similar("c1", q, limit, thr)
    \/ search_scan("c1")
    \/ clear("c1")
    \/ clear_vectors("c1")
    \/ save_vectors_open("c1")
    \/ save_vectors_dump("c1")
    \/ save_vectors_rename("c1")
    \/ initialize("c1")
    \/ get_connection("c1")
    \/ get_connection_opened("c1")
    \/ init_database("c1")
    \/ return_connection("c1")
    \/ load_vectors("c1")
    \/ load_vectors_done("c1")
    \/ search_similar_scan("c1")
    \/ search_similar_select("c1")
    \/ Return("c1")

InitEmpty ==
    /\ \E p \in PriorStores : SyncInit(p) \/ AsyncInit(p)
    /\ th = [t \in Callers |-> IdleT]

SpecEmpty == InitEmpty /\ [][NextEmpty]_vars

\* C25: a search on a store whose embedding map is empty, freshly created or
\* cleared, returns the empty sequence and raises nothing.
C25_Theorem ==
    \A t \in Callers :
        /\ th[t].pc = "done"
        /\ th[t].op \in {"search", "search_similar"}
        /\ vectors = <<>>
        => /\ th[t].result = "ok"
           /\ th[t].out = <<>>
           /\ ~th[t].raised

\* a search has returned on a store that held embeddings and was cleared
C25_Witness ==
    \E t \in Callers :
        /\ th[t].pc = "done" /\ th[t].op = "search"
        /\ vectors = <<>> /\ vectors0 # <<>>
        /\ chunks = EmptyTable
        /\ fs[VectorPath].exists

\* VectorStore.file_exists: SELECT 1 FROM files WHERE filepath = ?
file_exists(filepath) == filepath \in DOMAIN files

\* what VectorStore.add_chunks leaves behind for its batch: the row of every
\* chunk, a file record for every source file that counts at least the
\* chunks of the batch, and the embedding of every chunk in the map
AsSyncStore(cs, es) ==
    \A k \in 1..Len(cs) :
        /\ cs[k].chunk_id \in DOMAIN chunks
        /\ chunks[cs[k].chunk_id] = Row(cs[k])
        /\ file_exists(cs[k].source_file)
        /\ files[cs[k].source_file]
              >= Cardinality({j \in 1..Len(cs) : cs[j].source_file = cs[k].source_file})
        /\ \E i \in 1..Len(vectors) : vectors[i] = [id |-> cs[k].chunk_id, emb |-> es[k]]

\* C26: after the same add_chunks the async store holds what the sync store
\* holds: the chunk rows, a file record with the chunk count for every source
\* file of the batch (file_exists is true) and the embeddings.
C26_Claim ==
    \A t \in Callers :
        Succeeded(t, "add_chunks") => AsSyncStore(th[t].chunks, th[t].embs)

(***************************************************************************)
(* SpecSave: two tasks on one event loop of an AsyncVectorStore: c1 adds   *)
(* chunks, which ends in _save_vectors, while c2 searches.                 *)
(***************************************************************************)
SaveTasks == {"c1", "c2"}

NextSave ==
    \/ \E cs \in TaskBatches : async_add_chunks("c1", cs, EmbedAll(cs))
    \/ search_similar("c2", <<1, 0>>, MaxLimit, Zero)
    \/ \E t \in SaveTasks :
          \/ initialize(t)
          \/ get_connection(t)
          \/ get_connection_locked(t)
          \/ get_connection_opened(t)
          \/ init_database(t)
          \/ return_connection(t)
          \/ return_connection_locked(t)
          \/ load_vectors(t)
          \/ load_vectors_locked(t)
          \/ load_vectors_done(t)
          \/ async_add_chunks_check(t)
          \/ async_add_chunks_commit(t)
          \/ async_add_chunks_vectors(t)
          \/ async_add_chunks_vectors_locked(t)
          \/ async_save_vectors(t)
          \/ async_save_vectors_locked(t)
          \/ async_save_vectors_dump(t)
          \/ async_save_vectors_rename(t)
          \/ search_similar_scan(t)
          \/ search_similar_scan_locked(t)
          \/ search_similar_select(t)

SpecSave == InitAsync /\ [][NextSave]_vars

\* the tasks whose _save_vectors is writing to disk: pickle.dump or the
\* replace runs in the executor
WritingDisk == {t \in Callers : th[t].pc \in {"adump", "arename"}}

\* C27: a snapshot write does not block the reads of the map while the data
\* goes to disk: no search waits for the lock of the map while the
\* _save_vectors of another task is in its disk write.
C27_Claim ==
    \A t \in Callers :
        th[t].op = "search_similar" /\ th[t].pc = "scan_wait" => WritingDisk = {}

(***************************************************************************)
(* Eviction and expiry of the MemoryCache, checked under SpecCache.        *)
(***************************************************************************)
\* the tables as _cleanup_expired leaves them at the start of a get or set
Swept == cleanup_expired([cache |-> cache, access_times |-> access_times], now)

\* the step is a call of set, of get: the call that last_call' records
IsSet ==
    /\ last_call'.op = "set"
    /\ \E value \in Contents : \E ttl \in CacheTtls : cache_set(last_call'.key, value, ttl)

IsGet == last_call'.op = "get" /\ cache_get(last_call'.key)

\* C28: a set of a new key into a cache that holds max_size unexpired
\* entries evicts exactly one entry, one whose last access is the oldest; a
\* set into a cache below capacity evicts none; every set and every
\* successful get gives the entry the current time as its last access.
C28_Theorem ==
    [][/\ IsSet =>
             LET key == last_call'.key
                 live == DOMAIN Swept.cache
                 gone == live \ DOMAIN cache'
             IN  /\ (key \notin live /\ Cardinality(live) = max_size) =>
                       /\ Cardinality(gone) = 1
                       /\ \A e \in gone : \A j \in live :
                             Swept.access_times[e] <= Swept.access_times[j]
                 /\ Cardinality(live) < max_size => gone = {}
                 /\ access_times'[key] = now'
       /\ (IsGet /\ last_call'.value # <<>>) => access_times'[last_call'.key] = now'
      ]_vars

\* a set has put a new key into a full cache of unexpired entries and one
\* key was evicted, the other entry having been read after it was stored
C28_Witness ==
    /\ last_call.op = "set"
    /\ last_call.swept = {}
    /\ Cardinality(last_call.evicted) = 1
    /\ last_call.key \notin last_call.evicted
    /\ Cardinality(DOMAIN cache) = max_size
    /\ \E k \in DOMAIN cache \ {last_call.key} : access_times[k] = cache[k].expires

\* C29: get never returns the value of an entry whose ttl has elapsed, it
\* returns None instead; and an entry that a get or set leaves in the cache
\* had not expired when the call swept the cache.
C29_Theorem ==
    [][/\ IsGet =>
             /\ last_call'.value # <<>> =>
                   /\ last_call'.key \in DOMAIN cache
                   /\ now' <= cache[last_call'.key].expires
                   /\ last_call'.value = <<cache[last_call'.key].value>>
             /\ \A k \in DOMAIN cache' : now <= cache'[k].expires
       /\ IsSet => \A k \in DOMAIN cache' : now <= cache'[k].expires
      ]_vars

\* a get of a key whose entry had expired returned None and removed the
\* entry, while an unexpired entry of another key stays
C29_Witness ==
    /\ last_call.op = "get"
    /\ last_call.key \in last_call.swept
    /\ last_call.value = <<>>
    /\ last_call.key \notin DOMAIN cache
    /\ cache # EmptyTable

(***************************************************************************)
(* The fallback of chunk_text to character windows.                        *)
(***************************************************************************)
\* chunk_text went past its first test and the sentence pass over the
\* cleaned text gave a chunk of more than 1.5 * chunk_size characters
FellBack ==
    /\ doc.called
    /\ doc.text # <<>>
    /\ Len(strip(doc.text)) >= min_chunk_size
    /\ \E k \in 1..Len(chunk_by_sentences(doc.cleaned)) :
          2 * Len(chunk_by_sentences(doc.cleaned)[k].content) > 3 * chunk_size

\* C31: when the sentence pass gives a chunk longer than 1.5 * chunk_size,
\* chunk_text returns the character windows of the cleaned text instead, none
\* longer than chunk_size and none with a trimmed length below
\* min_chunk_size; and no chunk that chunk_text returns is longer than
\* 1.5 * chunk_size.
C31_Theorem ==
    /\ FellBack =>
          /\ doc.chunks = chunk_by_characters(doc.cleaned)
          /\ \A k \in 1..Len(doc.chunks) :
                /\ Len(doc.chunks[k].content) <= chunk_size
                /\ Len(strip(doc.chunks[k].content)) >= min_chunk_size
    /\ doc.called =>
          \A k \in 1..Len(doc.chunks) : 2 * Len(doc.chunks[k].content) <= 3 * chunk_size

\* a text fell back to character windows, which gave two chunks that differ
\* from the sentence chunks
C31_Witness ==
    /\ FellBack
    /\ Len(doc.chunks) >= 2
    /\ doc.chunks # chunk_by_sentences(doc.cleaned)

\* C32: chunk_text returns no chunk whenever the cleaned text is shorter
\* than min_chunk_size, also for a text whose trimmed length before cleaning
\* is at least min_chunk_size.
C32_Theorem ==
    doc.called /\ Len(doc.cleaned) < min_chunk_size => doc.chunks = <<>>

\* a text of two sentences passed the first test of chunk_text on its
\* trimmed length, its cleaned text is too short, and no chunk came back
C32_Witness ==
    /\ doc.called
    /\ Len(strip(doc.text)) >= min_chunk_size
    /\ Len(doc.cleaned) < min_chunk_size
    /\ Len(Sentences(doc.cleaned)) = 2
    /\ doc.chunks = <<>>

(***************************************************************************)
(* DatabasePool after close_all.                                           *)
(***************************************************************************)
\* C33: get_connection never hands out a closed connection: the connection
\* a caller has just taken from the pool, or made, and not yet marked as in
\* use, is open.
C33_Claim ==
    \A t \in Callers : th[t].pc = "mark" => th[t].held \notin db_pool.closed

(***************************************************************************)
(* The embedding map against the chunks table.                             *)
(***************************************************************************)
\* C34: once an add_chunks and a clear that ran side by side on one
\* VectorStore have both returned, the keys of the embedding map are the
\* chunk ids of the chunks table.
C34_Claim ==
    \A t \in Callers : \A u \in Callers \ {t} :
        (Succeeded(t, "add_chunks") /\ Succeeded(u, "clear"))
            => Keys(vectors) = DOMAIN chunks

\* C35: when the process dies inside an add_chunks and the store is opened
\* again, every row of the chunks table has an embedding in the map that is
\* loaded from the snapshot file.
C35_Claim ==
    [][(Crash /\ \E t \in Callers : th[t].op = "add_chunks")
          => DOMAIN chunks' \subseteq Keys(LoadVectors(fs'[VectorPath]))]_vars

(***************************************************************************)
(* Several VectorStore objects on the same database and snapshot paths.    *)
(* The endpoints construct a VectorStore per request and call it from      *)
(* coroutines without awaiting inside a call, so a call of one object runs *)
(* to its end before a call of another object starts: one step per call.   *)
(* The database and the snapshot file are shared; every object has its own *)
(* self.vectors.                                                           *)
(***************************************************************************)
\* the variables no VectorStore object of an endpoint writes
sharedvars == <<store, vectors, vector_lock, alock, pool_lock, permits, pool, initialized,
                memo, running, th, vectors0, db_pool, cache, access_times, now, doc, rag,
                stream, last_call>>

\* VectorStore.__init__: _init_database, then _load_vectors from the snapshot
inst_init(i) ==
    /\ ~inst[i].open
    /\ inst' = [inst EXCEPT ![i] = [open |-> TRUE,
                                    vectors |-> LoadVectors(fs[VectorPath]),
                                    added |-> {}]]
    /\ UNCHANGED <<sharedvars, chunks, files, fs>>

\* add_chunks of the object i: rows and counts, its own map, and the
\* snapshot file replaced by a dump of its own map
inst_add_chunks(i, cs, es) ==
    /\ inst[i].open
    /\ Len(cs) = Len(es)
    /\ chunks' = UpsertChunks(chunks, cs)
    /\ files' = CountChunks(files, cs)
    /\ LET v == SetVectors(inst[i].vectors, cs, es)
       IN  /\ inst' = [inst EXCEPT ![i].vectors = v, ![i].added = @ \cup BatchIds(cs)]
           /\ fs' = [fs EXCEPT ![VectorPath] = Pickle(v)]
    /\ UNCHANGED sharedvars

\* clear of the object i
inst_clear(i) ==
    /\ inst[i].open
    /\ chunks' = EmptyTable
    /\ files' = EmptyTable
    /\ inst' = [inst EXCEPT ![i].vectors = <<>>]
    /\ fs' = [fs EXCEPT ![VectorPath] = Pickle(<<>>)]
    /\ UNCHANGED sharedvars

\* the request ends and its VectorStore object is dropped
inst_drop(i) ==
    /\ inst[i].open
    /\ inst' = [inst EXCEPT ![i] = NoInstance]
    /\ UNCHANGED <<sharedvars, chunks, files, fs>>

(***************************************************************************)
(* SpecShared: two VectorStore objects, constructed at any time, each      *)
(* ingesting batches of one chunk.                                         *)
(***************************************************************************)
\* the first chunk of either file
SharedBatches == {<<TextChunk(f, 0, "x")>> : f \in Files}

InitShared ==
    /\ \E p \in SeqPriorStores : SyncInit(p)
    /\ th = [t \in Callers |-> IdleT]

NextShared ==
    \E i \in Instances :
        \/ inst_init(i)
        \/ \E cs \in SharedBatches : CountsFit(cs) /\ inst_add_chunks(i, cs, EmbedAll(cs))
        \/ inst_clear(i)
        \/ inst_drop(i)

SpecShared == InitShared /\ [][NextShared]_vars

\* the ids in the snapshot file
SnapshotIds == Keys(LoadVectors(fs[VectorPath]))

\* C36: a snapshot written by the add_chunks of one VectorStore object leaves
\* in the snapshot file every embedding that another object on the same
\* paths added and persisted.
C36_Claim ==
    [][\A i \in Instances : \A cs \in SharedBatches :
          inst_add_chunks(i, cs, EmbedAll(cs)) =>
             \A j \in Instances \ {i} :
                (inst[j].added \cap SnapshotIds) \subseteq Keys(LoadVectors(fs'[VectorPath]))
      ]_vars

(***************************************************************************)
(* The snapshot load of the AsyncVectorStore.                              *)
(***************************************************************************)
\* C37: no _load_vectors of an AsyncVectorStore replaces an embedding map
\* that holds an embedding added by an add_chunks: when a task leaves
\* _load_vectors, the map it replaced held only ids of the snapshot the
\* store started from.
C37_Claim ==
    [][\A t \in Callers :
          (th[t].pc \in {"load", "load_wait", "load_io"} /\ th'[t].pc = "body")
              => Keys(vectors) \subseteq Keys(vectors0)]_vars

(***************************************************************************)
(* SpecStale: the two tasks of SpecSave, each making one call after the    *)
(* other: searches for one query next to ingestions.                       *)
(***************************************************************************)
NextStale ==
    \/ NextSave
    \/ \E t \in SaveTasks : Return(t)

SpecStale == InitAsync /\ [][NextStale]_vars

\* C38: a search_similar that the decorator answers at once, while no other
\* call is under way, returns what the search finds in the store at that
\* time: the rows of the best matches among the stored embeddings, so that a
\* matching chunk of an add_chunks that has returned is in the result.
C38_Claim ==
    [][\A t \in Callers :
          ( /\ th[t].pc = "idle"
            /\ th'[t].pc = "done"
            /\ th'[t].op = "search_similar"
            /\ initialized
            /\ \A u \in Callers \ {t} : th[u].pc \in {"idle", "done"} )
          => th'[t].out = JoinedResults(chunks, TopSimilarities(vectors, th'[t].q,
                                                                th'[t].limit, th'[t].thr))
      ]_vars

(***************************************************************************)
(* MemoryCache.set on a key the cache holds.                               *)
(***************************************************************************)
\* C39: a set on a key that is in the cache and has not expired keeps the
\* key in the cache and leaves every other unexpired entry as it was, also
\* when the cache holds max_size entries.
C39_Claim ==
    [][(IsSet /\ last_call'.key \in DOMAIN Swept.cache) =>
          /\ last_call'.key \in DOMAIN cache'
          /\ \A k \in DOMAIN Swept.cache \ {last_call'.key} :
                k \in DOMAIN cache' /\ cache'[k] = cache[k]
      ]_vars

(***************************************************************************)
(* The order of the events of a streaming chat response.                   *)
(***************************************************************************)
\* the chunk events a response of these sentences is to carry
RECURSIVE ChunkEvents(_)
ChunkEvents(sentences) ==
    IF sentences = <<>> THEN <<>>
    ELSE (IF strip(Head(sentences)) # <<>>
          THEN <<Event("chunk", strip(Head(sentences)) \o <<" ">>)>> ELSE <<>>)
         \o ChunkEvents(Tail(sentences))

\* the events follow the order status, sources at most once, chunks, and
\* one terminal event at the end
InOrder(ev) ==
    LET n == Len(ev)
        first == IF n >= 2 /\ ev[2].event = "sources" THEN 3 ELSE 2
    IN  /\ n >= 2
        /\ ev[1].event = "status"
        /\ ev[n].event \in {"complete", "error"}
        /\ \A k \in first..(n - 1) : ev[k].event = "chunk"
        /\ ev[n].event = "complete" => SubSeq(ev, first, n - 1) = ChunkEvents(stream.sentences)

\* C40: a streaming chat response that ran to its end without being
\* cancelled has emitted one status event, then at most one sources event,
\* then one chunk event per non-empty sentence in order, then one terminal
\* event, complete or error, and nothing after it.
C40_Claim ==
    (stream.pc = "closed" /\ ~stream.cancelled) => InOrder(stream.events)

=============================================================================
